---- MODULE Spec2Model ----
(***************************************************************************)
(* Model of the eclosion backend: the encrypted notes repository, the IP   *)
(* lockout of the security service, the frozen monthly target calculator   *)
(* and the refunds service.  Each subsystem has its own variables, its own *)
(* next-state relation and its own specification; Spec is their union.    *)
(***************************************************************************)
EXTENDS Integers, Sequences, FiniteSets, TLC

None == "None"

(***************************************************************************)
(* Bounds of the model                                                     *)
(***************************************************************************)
\* number of repository calls in one behaviour of the notes store
MaxNoteOps == 3
\* failed attempts recorded per IP before the model stops recording more
MaxAttempts == 11
\* the last minute of the security service's clock, and its step
MaxLockNow == 20
ClockStepMinutes == 5
\* number of requests to the refunds service in one behaviour
MaxRefundCalls == 3
\* number of saved views
MaxViews == 2

(***************************************************************************)
(* NOTES REPOSITORY  (src/state/db/repositories/notes_repo.py)             *)
(***************************************************************************)
VARIABLES
  notes,            \* rows of table notes
  generalNotes,     \* rows of table general_notes
  archivedNotes,    \* rows of table archived_notes
  knownCategories,  \* rows of table known_categories
  notesNow,         \* datetime.utcnow() of the next writing call
  notesCalls,       \* number of repository calls made so far
  nextUuid,         \* the next value uuid.uuid4() returns
  notesRet          \* the last call and what it returned

notesVars == <<notes, generalNotes, archivedNotes, knownCategories, notesNow,
               notesCalls, nextUuid, notesRet>>

VARIABLES
  checkboxStates    \* rows of table checkbox_states

checkboxVars == <<checkboxStates>>

VARIABLES
  noteSessions      \* per database session, its position in save_note and
                    \* what it has read

sessionVars == <<noteSessions>>

VARIABLES
  ipLockouts,       \* rows of table ip_lockouts
  lockNow,          \* datetime.now(UTC), in minutes
  failedCalls,      \* per IP, record_failed_remote_unlock calls since the
                    \* IP last had no row (history)
  lockRet           \* the last security-service call and what it returned

lockVars == <<ipLockouts, lockNow, failedCalls, lockRet>>

VARIABLES
  lockCallers       \* per thread, its position in
                    \* record_failed_remote_unlock and what it has read

lockCallerVars == <<lockCallers>>

VARIABLES
  dbFile,           \* the database file: whether it exists, whether it has
                    \* the notes table, the row of schema_version
  migRun,           \* the position of run_migrations and its locals
  migLog,           \* the versions whose migration ran, oldest first
  migRuns           \* number of run_migrations calls so far

migVars == <<dbFile, migRun, migLog, migRuns>>

VARIABLES
  isStarted,          \* SyncScheduler._is_started
  isForeground,       \* SyncScheduler._is_foreground
  autoSyncEnabled,    \* SyncScheduler._auto_sync_enabled
  syncCallback,       \* SyncScheduler._sync_callback: None or the callback
  sessionCredentials, \* whether active session credentials are present
  job,                \* the job stored under SYNC_JOB_ID, if any
  dueRuns,            \* run times of the job that have passed unprocessed
  workers,            \* the executor's threads: free, holding a submitted
                      \* run of the job, or inside the sync callback
  lastWake,           \* what the scheduler's last look at the job found
  lastFire,           \* what the last start of the job wrapper found and did
  ticks               \* number of run times that have passed so far

schedVars == <<isStarted, isForeground, autoSyncEnabled, syncCallback,
               sessionCredentials, job, dueRuns, workers, lastWake, lastFire,
               ticks>>

VARIABLES
  frozenTargets,    \* the state manager's frozen target per recurring id
  lastCall,         \* per recurring id, the inputs and the frozen_target of
                    \* its last calculate_frozen_target call (history)
  frozenSeq,        \* parity of the number of calculate_frozen_target calls
  frozenRet         \* the last calculate_frozen_target call and its result

frozenVars == <<frozenTargets, lastCall, frozenSeq, frozenRet>>

VARIABLES
  viewCall          \* the last _txn_matches_view call and what it returned

viewVars == <<viewCall>>

VARIABLES
  refundsMatches,   \* rows of table refunds_matches
  upstreamNotes,    \* per transaction, its notes at Monarch
  upstreamTags,     \* per transaction, its tag ids at Monarch
  replacementTagId, \* refunds_config.replacement_tag_id
  req,              \* per request, its position in create_match or
                    \* delete_match and its local variables
  refundsCalls,     \* number of requests started so far
  nextMatchId       \* the next id a new match row gets

refundsVars == <<refundsMatches, upstreamNotes, upstreamTags,
                 replacementTagId, req, refundsCalls, nextMatchId>>

VARIABLES
  savedViews,       \* rows of table refunds_saved_views
  nextViewId        \* the next id a new saved view gets

savedViewVars == <<savedViews, nextViewId>>

vars == <<notesVars, lockVars, frozenVars, viewVars, refundsVars,
         savedViewVars, lockCallerVars, migVars, schedVars, checkboxVars, sessionVars>>

CategoryTypes == {"group", "category"}
\* the (category_type, category_id) pairs requests are made for: two types
\* sharing one Monarch id, and a second id
CategoryRefs == {<<"category", "c1">>, <<"group", "c1">>, <<"category", "c2">>}
CategoryIds == {r[2] : r \in CategoryRefs}
\* month keys "2024-12", "2025-01", "2025-06" as <<year, month>>
MonthKeys == {<<2024, 12>>, <<2025, 1>>, <<2025, 6>>}
\* the (category_name, content) pairs of the save requests
SaveInputs == {<<"n1", "a">>, <<"n2", "b">>}
Contents == {i[2] : i \in SaveInputs}
\* the passphrase of the unlocked session, and a wrong one
SessionPassphrase == "p1"
Passphrases == {"p1", "p2"}

\* Comparison of two "YYYY-MM" strings: both have the same width
\* (MONTH_KEY_PATTERN), so str <= compares year digits, then month digits.
MonthLE(a, b) == a[1] < b[1] \/ (a[1] = b[1] /\ a[2] <= b[2])

MonthLT(a, b) == MonthLE(a, b) /\ a # b

\* CredentialEncryption(passphrase).encrypt(content): a fresh random salt per
\* call; the ciphertext is authenticated under the key derived from
\* (passphrase, salt).
EncryptContent(content, passphrase, salt) ==
  [ciphertext |-> <<content, passphrase, salt>>, salt |-> salt]

\* a decryption that ignores which passphrase the key was derived from
DecryptContentAnyPassphrase(encrypted, salt, passphrase) == encrypted[1]

\* _decrypt_content: InvalidToken becomes DecryptionError
DecryptContent(encrypted, salt, passphrase) ==
  IF encrypted[2] = passphrase /\ encrypted[3] = salt
    THEN encrypted[1]
    ELSE "DecryptionError"

NoteToDict(n, content) ==
  [id |-> n.id, category_type |-> n.category_type, category_id |-> n.category_id,
   category_name |-> n.category_name, month_key |-> n.month_key,
   content |-> content, created_at |-> n.created_at, updated_at |-> n.updated_at]

GeneralNoteToDict(n, content) ==
  [id |-> n.id, month_key |-> n.month_key, content |-> content,
   created_at |-> n.created_at, updated_at |-> n.updated_at]

\* ORDER BY month_key: some ascending arrangement of the rows
RECURSIVE OrderByMonthKey(_)
OrderByMonthKey(rows) ==
  IF rows = {} THEN <<>>
  ELSE LET first == CHOOSE r \in rows :
                      \A o \in rows : MonthLE(r.month_key, o.month_key)
       IN <<first>> \o OrderByMonthKey(rows \ {first})

\* the decrypted dicts of a row sequence; ok is false when some row does not
\* decrypt (DecryptionError is raised)
RECURSIVE DecryptRows(_, _, _)
DecryptRows(rows, passphrase, general) ==
  IF rows = <<>> THEN [ok |-> TRUE, dicts |-> <<>>]
  ELSE LET n == Head(rows)
           content == DecryptContent(n.content_encrypted, n.salt, passphrase)
           rest == DecryptRows(Tail(rows), passphrase, general)
       IN IF content = "DecryptionError" \/ ~rest.ok
            THEN [ok |-> FALSE, dicts |-> <<>>]
            ELSE [ok |-> TRUE,
                  dicts |-> <<IF general THEN GeneralNoteToDict(n, content)
                                         ELSE NoteToDict(n, content)>>
                            \o rest.dicts]

GetNotesForCategory(category_type, category_id, passphrase) ==
  DecryptRows(
    OrderByMonthKey({n \in notes : n.category_type = category_type
                                   /\ n.category_id = category_id}),
    passphrase, FALSE)

GetAllGeneralNotes(passphrase) ==
  DecryptRows(OrderByMonthKey(generalNotes), passphrase, TRUE)

\* a scan that takes only notes strictly before the target month
RECURSIVE ScanReversedStrict(_, _, _)
ScanReversedStrict(dicts, i, target_month) ==
  IF i = 0 THEN [kind |-> "None"]
  ELSE IF MonthLT(dicts[i].month_key, target_month)
    THEN [kind |-> "effective", note |-> dicts[i],
          source_month |-> dicts[i].month_key,
          is_inherited |-> dicts[i].month_key # target_month]
    ELSE ScanReversedStrict(dicts, i - 1, target_month)

\* for note in reversed(notes): if note["month_key"] <= target_month: return
RECURSIVE ScanReversed(_, _, _)
ScanReversed(dicts, i, target_month) ==
  IF i = 0 THEN [kind |-> "None"]
  ELSE IF MonthLE(dicts[i].month_key, target_month)
    THEN [kind |-> "effective", note |-> dicts[i],
          source_month |-> dicts[i].month_key,
          is_inherited |-> dicts[i].month_key # target_month]
    ELSE ScanReversed(dicts, i - 1, target_month)

\* the result of an effective-note query over the decrypted timeline
EffectiveOf(decrypted, target_month) ==
  IF ~decrypted.ok THEN [kind |-> "DecryptionError"]
  ELSE ScanReversed(decrypted.dicts, Len(decrypted.dicts), target_month)

GetEffectiveNoteResult(category_type, category_id, target_month, passphrase) ==
  EffectiveOf(GetNotesForCategory(category_type, category_id, passphrase),
              target_month)

GetEffectiveGeneralNoteResult(target_month, passphrase) ==
  EffectiveOf(GetAllGeneralNotes(passphrase), target_month)

\* _update_known_category
UpdateKnownCategory(known, category_id, name) ==
  IF \E k \in known : k.category_id = category_id
    THEN {IF k.category_id = category_id THEN [k EXCEPT !.name = name] ELSE k
          : k \in known}
    ELSE known \cup {[category_id |-> category_id, name |-> name]}

\* a save_note that always inserts
SaveNoteRowsInsertOnly(rows, category_type, category_id, category_name, month_key, enc, now, uuid) ==
  rows \cup
    {[id |-> uuid, category_type |-> category_type,
      category_id |-> category_id, category_name |-> category_name,
      month_key |-> month_key, content_encrypted |-> enc.ciphertext,
      salt |-> enc.salt, created_at |-> now, updated_at |-> now]}

\* the rows of notes after save_note: the first row with the key is updated
\* in place, or a new row is added
SaveNoteRows(rows, category_type, category_id, category_name, month_key, enc, now, uuid) ==
  LET matching == {n \in rows : n.category_id = category_id
                               /\ n.category_type = category_type
                               /\ n.month_key = month_key}
  IN IF matching # {}
       THEN LET existing == CHOOSE n \in matching : TRUE
            IN (rows \ {existing}) \cup
               {[existing EXCEPT !.content_encrypted = enc.ciphertext,
                                 !.salt = enc.salt,
                                 !.updated_at = now,
                                 !.category_name = category_name]}
       ELSE rows \cup
            {[id |-> uuid, category_type |-> category_type,
              category_id |-> category_id, category_name |-> category_name,
              month_key |-> month_key, content_encrypted |-> enc.ciphertext,
              salt |-> enc.salt, created_at |-> now, updated_at |-> now]}

SaveNote(category_type, category_id, category_name, month_key, content) ==
  LET enc == EncryptContent(content, SessionPassphrase, notesNow)
      rows == SaveNoteRows(notes, category_type, category_id, category_name,
                           month_key, enc, notesNow, nextUuid)
      saved == CHOOSE n \in rows : n.category_id = category_id
                                   /\ n.category_type = category_type
                                   /\ n.month_key = month_key
                                   /\ n.updated_at = notesNow
  IN /\ notesCalls < MaxNoteOps
     /\ notesCalls' = notesCalls + 1
     /\ notes' = rows
     /\ knownCategories' = UpdateKnownCategory(knownCategories, category_id,
                                               category_name)
     /\ notesNow' = notesNow + 1
     /\ nextUuid' = IF saved.id = nextUuid THEN nextUuid + 1 ELSE nextUuid
     /\ notesRet' = [op |-> "save_note", ret |-> NoteToDict(saved, content)]
     /\ UNCHANGED <<generalNotes, archivedNotes, checkboxStates>>

\* no note id: the column checkbox_states.note_id is NULL
NoNoteId == 0

\* no month: the column checkbox_states.general_note_month_key is NULL
NoMonth == <<>>

\* the foreign key of checkbox_states.note_id declared without ON DELETE:
\* the rows of a deleted note stay
OnDeleteNoAction(states, note_rows) == states

\* ForeignKey("notes.id", ondelete="CASCADE"): the rows of checkbox_states
\* whose note is no longer in notes go with it
OnDeleteCascade(states, note_rows) ==
  {c \in states : c.note_id = NoNoteId
                   \/ \E n \in note_rows : n.id = c.note_id}

\* session.query(Note).filter(Note.id == note_id).delete()
DeleteNoteRows(rows, note_id) == {n \in rows : n.id # note_id}

DeleteNote(note_id) ==
  /\ notesCalls < MaxNoteOps
  /\ notesCalls' = notesCalls + 1
  /\ notes' = DeleteNoteRows(notes, note_id)
  /\ notesNow' = notesNow + 1
  /\ checkboxStates' = OnDeleteCascade(checkboxStates, notes')
  /\ notesRet' = [op |-> "delete_note", ret |-> (notes' # notes),
                  states_removed |->
                    Cardinality(checkboxStates \ checkboxStates')]
  /\ UNCHANGED <<generalNotes, archivedNotes, knownCategories, nextUuid>>

SaveGeneralNote(month_key, content) ==
  LET enc == EncryptContent(content, SessionPassphrase, notesNow)
      matching == {n \in generalNotes : n.month_key = month_key}
      rows == IF matching # {}
                THEN LET existing == CHOOSE n \in matching : TRUE
                     IN (generalNotes \ {existing}) \cup
                        {[existing EXCEPT !.content_encrypted = enc.ciphertext,
                                          !.salt = enc.salt,
                                          !.updated_at = notesNow]}
                ELSE generalNotes \cup
                     {[month_key |-> month_key, id |-> nextUuid,
                       content_encrypted |-> enc.ciphertext, salt |-> enc.salt,
                       created_at |-> notesNow, updated_at |-> notesNow]}
      saved == CHOOSE n \in rows : n.month_key = month_key
                                   /\ n.updated_at = notesNow
  IN /\ notesCalls < MaxNoteOps
     /\ notesCalls' = notesCalls + 1
     /\ generalNotes' = rows
     /\ notesNow' = notesNow + 1
     /\ nextUuid' = IF saved.id = nextUuid THEN nextUuid + 1 ELSE nextUuid
     /\ notesRet' = [op |-> "save_general_note",
                     ret |-> GeneralNoteToDict(saved, content)]
     /\ UNCHANGED <<notes, archivedNotes, knownCategories, checkboxStates>>

DeleteGeneralNote(month_key) ==
  /\ notesCalls < MaxNoteOps
  /\ notesCalls' = notesCalls + 1
  /\ generalNotes' = {n \in generalNotes : n.month_key # month_key}
  /\ notesNow' = notesNow + 1
  /\ notesRet' = [op |-> "delete_general_note",
                  ret |-> (generalNotes' # generalNotes)]
  /\ UNCHANGED <<notes, archivedNotes, knownCategories, nextUuid,
                 checkboxStates>>

\* an archival that encrypts the content again under a new salt
ArchivedOfReencrypted(n, now) ==
  [id |-> n.id, category_type |-> n.category_type, category_id |-> n.category_id,
   category_name |-> n.category_name, month_key |-> n.month_key,
   content_encrypted |-> <<n.content_encrypted[1], n.content_encrypted[2], now>>,
   salt |-> now,
   created_at |-> n.created_at, updated_at |-> n.updated_at,
   archived_at |-> now, original_category_name |-> n.category_name]

\* the ArchivedNote built from a Note
ArchivedOf(n, now) ==
  [id |-> n.id, category_type |-> n.category_type, category_id |-> n.category_id,
   category_name |-> n.category_name, month_key |-> n.month_key,
   content_encrypted |-> n.content_encrypted, salt |-> n.salt,
   created_at |-> n.created_at, updated_at |-> n.updated_at,
   archived_at |-> now, original_category_name |-> n.category_name]

\* archive_notes_for_category on a database [notes, archived, known, count]
ArchiveNotesForCategory(db, category_id, now) ==
  LET rows == {n \in db.notes : n.category_id = category_id}
  IN [notes |-> {n \in db.notes : n.category_id # category_id},
      archived |-> db.archived \cup {ArchivedOf(n, now) : n \in rows},
      known |-> {k \in db.known : k.category_id # category_id},
      count |-> db.count + Cardinality(rows)]

\* deleted_ids = known_ids, whatever the current categories are
DeletedIdsAllKnown(known, current_category_ids) ==
  {k.category_id : k \in known}

\* deleted_ids = known_ids - current_category_ids
DeletedIds(known, current_category_ids) ==
  {k.category_id : k \in known} \ current_category_ids

RECURSIVE ArchiveAll(_, _, _)
ArchiveAll(db, ids, now) ==
  IF ids = {} THEN db
  ELSE LET id == CHOOSE i \in ids : TRUE
       IN ArchiveAll(ArchiveNotesForCategory(db, id, now), ids \ {id}, now)

SyncCategories(current_category_ids) ==
  LET db == ArchiveAll([notes |-> notes, archived |-> archivedNotes,
                        known |-> knownCategories, count |-> 0],
                       DeletedIds(knownCategories, current_category_ids),
                       notesNow)
  IN /\ notesCalls < MaxNoteOps
     /\ notesCalls' = notesCalls + 1
     /\ notes' = db.notes
     /\ archivedNotes' = db.archived
     /\ knownCategories' = db.known
     /\ notesNow' = notesNow + 1
     /\ notesRet' = [op |-> "sync_categories",
                     ret |-> [archived_count |-> db.count],
                     current_ids |-> current_category_ids]
     /\ checkboxStates' = OnDeleteCascade(checkboxStates, db.notes)
     /\ UNCHANGED <<generalNotes, nextUuid>>

GetEffectiveNote(category_type, category_id, target_month, passphrase) ==
  /\ notesCalls < MaxNoteOps
  /\ notesCalls' = notesCalls + 1
  /\ notesRet' = [op |-> "get_effective_note",
                  category_type |-> category_type, category_id |-> category_id,
                  target_month |-> target_month,
                  ret |-> GetEffectiveNoteResult(category_type, category_id,
                                                 target_month, passphrase)]
  /\ UNCHANGED <<notes, generalNotes, archivedNotes, knownCategories, notesNow,
                 nextUuid, checkboxStates>>

GetEffectiveGeneralNote(target_month, passphrase) ==
  /\ notesCalls < MaxNoteOps
  /\ notesCalls' = notesCalls + 1
  /\ notesRet' = [op |-> "get_effective_general_note",
                  target_month |-> target_month,
                  ret |-> GetEffectiveGeneralNoteResult(target_month, passphrase)]
  /\ UNCHANGED <<notes, generalNotes, archivedNotes, knownCategories, notesNow,
                 nextUuid, checkboxStates>>

\* a filter on the note (or the general note's month) alone, without
\* CheckboxState.viewing_month == viewing_month
FindCheckboxStateAnyMonth(states, note_id, general_note_month_key, viewing_month) ==
  {c \in states :
     IF note_id # NoNoteId
       THEN c.note_id = note_id
       ELSE c.general_note_month_key = general_note_month_key}

\* the checkbox_states row update_checkbox_state looks for: .first() of the
\* rows of the note (or of the general note's month) and viewing month
FindCheckboxState(states, note_id, general_note_month_key, viewing_month) ==
  {c \in states :
     /\ c.viewing_month = viewing_month
     /\ IF note_id # NoNoteId
          THEN c.note_id = note_id
          ELSE c.general_note_month_key = general_note_month_key}

\* get_checkbox_states / get_general_checkbox_states: json.loads of the
\* first row of the pair, [] when there is none
StoredStates(states, note_id, general_note_month_key, viewing_month) ==
  LET found == FindCheckboxState(states, note_id, general_note_month_key,
                                 viewing_month)
  IN  IF found = {} THEN <<>> ELSE (CHOOSE c \in found : TRUE).states

\* get_checkbox_states(note_id, viewing_month)
GetCheckboxStates(note_id, viewing_month) ==
  /\ notesCalls < MaxNoteOps
  /\ notesCalls' = notesCalls + 1
  /\ notesRet' = [op |-> "get_checkbox_states",
                  ret |-> StoredStates(checkboxStates, note_id, NoMonth,
                                       viewing_month)]
  /\ UNCHANGED <<notes, generalNotes, archivedNotes, knownCategories, notesNow,
                 nextUuid, checkboxStates>>

\* get_general_checkbox_states(source_month, viewing_month)
GetGeneralCheckboxStates(source_month, viewing_month) ==
  /\ notesCalls < MaxNoteOps
  /\ notesCalls' = notesCalls + 1
  /\ notesRet' = [op |-> "get_general_checkbox_states",
                  ret |-> StoredStates(checkboxStates, NoNoteId, source_month,
                                       viewing_month)]
  /\ UNCHANGED <<notes, generalNotes, archivedNotes, knownCategories, notesNow,
                 nextUuid, checkboxStates>>

\* states.append(True) in the place of states.append(False)
ExpandStatesChecked(states, checkbox_index) ==
  [i \in 1..(IF Len(states) <= checkbox_index THEN checkbox_index + 1
                                              ELSE Len(states))
     |-> IF i <= Len(states) THEN states[i] ELSE TRUE]

\* while len(states) <= checkbox_index: states.append(False)
ExpandStates(states, checkbox_index) ==
  [i \in 1..(IF Len(states) <= checkbox_index THEN checkbox_index + 1
                                              ELSE Len(states))
     |-> IF i <= Len(states) THEN states[i] ELSE FALSE]

\* update_checkbox_state; a row for a note_id that is not in notes violates
\* the foreign key and is not stored
UpdateCheckboxState(viewing_month, checkbox_index, is_checked, note_id, general_note_month_key) ==
  LET found == FindCheckboxState(checkboxStates, note_id,
                                 general_note_month_key, viewing_month)
      old == IF found = {} THEN <<>> ELSE (CHOOSE c \in found : TRUE).states
      states == [ExpandStates(old, checkbox_index)
                   EXCEPT ![checkbox_index + 1] = is_checked]
      row == [note_id |-> note_id,
              general_note_month_key |-> general_note_month_key,
              viewing_month |-> viewing_month, states |-> states]
      violates == note_id # NoNoteId /\ \A n \in notes : n.id # note_id
  IN /\ notesCalls < MaxNoteOps
     /\ notesCalls' = notesCalls + 1
     /\ notesNow' = notesNow + 1
     /\ checkboxStates' =
          IF violates THEN checkboxStates
          ELSE IF found = {} THEN checkboxStates \cup {row}
          ELSE LET existing == CHOOSE c \in found : TRUE
               IN (checkboxStates \ {existing})
                    \cup {[existing EXCEPT !.states = states]}
     /\ notesRet' = [op |-> "update_checkbox_state",
                     ret |-> IF violates THEN <<>> ELSE states]
     /\ UNCHANGED <<notes, generalNotes, archivedNotes, knownCategories,
                    nextUuid>>

\* the notes and months the checkbox requests name: a category note by its
\* id, or a general note by its month
CheckboxTargets ==
  {<<id, NoMonth>> : id \in 1..MaxNoteOps}
    \cup {<<NoNoteId, m>> : m \in {<<2025, 1>>}}

CheckboxIndexes == {0, 2}

CheckboxInit == checkboxStates = {}

NotesInit ==
  /\ notes = {}
  /\ generalNotes = {}
  /\ archivedNotes = {}
  /\ knownCategories = {}
  /\ notesNow = 0
  /\ notesCalls = 0
  /\ nextUuid = 1
  /\ notesRet = [op |-> "none"]

\* a step of the notes repository leaves the other subsystems alone
NotesFrame ==
  UNCHANGED <<lockVars, frozenVars, viewVars, refundsVars, savedViewVars,
              lockCallerVars,
              migVars, schedVars, sessionVars>>

NotesNext ==
  \/ \E r \in CategoryRefs, i \in SaveInputs, m \in MonthKeys :
        SaveNote(r[1], r[2], i[1], m, i[2]) /\ NotesFrame
  \/ \E id \in 1..MaxNoteOps : DeleteNote(id) /\ NotesFrame
  \/ \E m \in MonthKeys, c \in Contents :
        SaveGeneralNote(m, c) /\ NotesFrame
  \/ \E m \in MonthKeys : DeleteGeneralNote(m) /\ NotesFrame
  \/ \E ids \in SUBSET CategoryIds : SyncCategories(ids) /\ NotesFrame
  \/ \E r \in CategoryRefs, m \in MonthKeys, p \in Passphrases :
        GetEffectiveNote(r[1], r[2], m, p) /\ NotesFrame
  \/ \E m \in MonthKeys, p \in Passphrases :
        GetEffectiveGeneralNote(m, p) /\ NotesFrame

\* the notes repository with its checkbox states
CheckboxNext ==
  \/ \E r \in CategoryRefs, m \in MonthKeys :
        SaveNote(r[1], r[2], "n1", m, "a") /\ NotesFrame
  \/ \E id \in 1..MaxNoteOps : DeleteNote(id) /\ NotesFrame
  \/ \E m \in MonthKeys : DeleteGeneralNote(m) /\ NotesFrame
  \/ \E ids \in SUBSET CategoryIds : SyncCategories(ids) /\ NotesFrame
  \/ \E t \in CheckboxTargets, vm \in MonthKeys, i \in CheckboxIndexes,
        b \in BOOLEAN :
        UpdateCheckboxState(vm, i, b, t[1], t[2]) /\ NotesFrame
  \/ \E t \in CheckboxTargets, vm \in MonthKeys :
        /\ t[1] # NoNoteId
        /\ GetCheckboxStates(t[1], vm)
        /\ NotesFrame
  \/ \E t \in CheckboxTargets, vm \in MonthKeys :
        /\ t[1] = NoNoteId
        /\ GetGeneralCheckboxStates(t[2], vm)
        /\ NotesFrame

\* the update is stored: a general note's month, or a note that exists
TargetIsStorable(t) == t[1] = NoNoteId \/ \E n \in notes : n.id = t[1]

PairOf(c) == <<c.note_id, c.general_note_month_key, c.viewing_month>>

GetNote(note_id, passphrase) ==
  LET found == {n \in notes : n.id = note_id}
      note == CHOOSE n \in found : TRUE
      content == DecryptContent(note.content_encrypted, note.salt, passphrase)
  IN /\ notesCalls < MaxNoteOps
     /\ notesCalls' = notesCalls + 1
     /\ notesRet' =
          IF found = {} THEN [op |-> "get_note", kind |-> "None"]
          ELSE IF content = "DecryptionError"
            THEN [op |-> "get_note", kind |-> "DecryptionError"]
          ELSE [op |-> "get_note", kind |-> "ok",
                ret |-> NoteToDict(note, content)]
     /\ UNCHANGED <<notes, generalNotes, archivedNotes, knownCategories,
                    notesNow, nextUuid, checkboxStates>>

\* for note in reversed(notes): if note["month_key"] < month_key: the index
\* of the source note, 0 when the loop ends without one
RECURSIVE SourceNoteIndex(_, _, _)
SourceNoteIndex(dicts, i, month_key) ==
  IF i = 0 THEN 0
  ELSE IF MonthLT(dicts[i].month_key, month_key) THEN i
  ELSE SourceNoteIndex(dicts, i - 1, month_key)

\* a scan for the first note at or after month_key
RECURSIVE NextCustomMonthInclusive(_, _, _)
NextCustomMonthInclusive(dicts, i, month_key) ==
  IF i > Len(dicts) THEN NoMonth
  ELSE IF MonthLE(month_key, dicts[i].month_key) THEN dicts[i].month_key
  ELSE NextCustomMonthInclusive(dicts, i + 1, month_key)

\* for note in notes: if note["month_key"] > month_key: its month_key, None
\* when the loop ends without one
RECURSIVE NextCustomMonth(_, _, _)
NextCustomMonth(dicts, i, month_key) ==
  IF i > Len(dicts) THEN NoMonth
  ELSE IF MonthLT(month_key, dicts[i].month_key) THEN dicts[i].month_key
  ELSE NextCustomMonth(dicts, i + 1, month_key)

\* a loop that stops only after end_month:  month_key > end_month
RECURSIVE MonthsLoopPastEnd(_, _, _, _, _)
MonthsLoopPastEnd(year, month, end_month, count, max_future_months) ==
  IF count >= max_future_months THEN <<>>
  ELSE IF end_month # NoMonth /\ MonthLT(end_month, <<year, month>>) THEN <<>>
  ELSE <<<<year, month>>>> \o
       MonthsLoopPastEnd(IF month + 1 > 12 THEN year + 1 ELSE year,
                         IF month + 1 > 12 THEN 1 ELSE month + 1,
                         end_month, count + 1, max_future_months)

\* the while loop of _get_months_in_range: f"{year:04d}-{month:02d}" is
\* appended until count reaches max_future_months or the key is at or past
\* end_month
RECURSIVE MonthsLoop(_, _, _, _, _)
MonthsLoop(year, month, end_month, count, max_future_months) ==
  IF count >= max_future_months THEN <<>>
  ELSE IF end_month # NoMonth /\ MonthLE(end_month, <<year, month>>) THEN <<>>
  ELSE <<<<year, month>>>> \o
       MonthsLoop(IF month + 1 > 12 THEN year + 1 ELSE year,
                  IF month + 1 > 12 THEN 1 ELSE month + 1,
                  end_month, count + 1, max_future_months)

\* _get_months_in_range(start_month, end_month, max_future_months)
GetMonthsInRange(start_month, end_month, max_future_months) ==
  MonthsLoop(start_month[1], start_month[2], end_month, 0, max_future_months)

\* sum(1 for s in states if s)
RECURSIVE CheckedCount(_)
CheckedCount(states) ==
  IF states = <<>> THEN 0
  ELSE (IF Head(states) THEN 1 ELSE 0) + CheckedCount(Tail(states))

\* get_checkbox_states_by_viewing_months and the count of checked items per
\* month: the (viewing_month, checked_count) pairs with a count above 0
MonthsWithCheckboxData(viewing_months, note_id, general_note_month_key) ==
  {<<c.viewing_month, CheckedCount(c.states)>> :
     c \in {r \in checkboxStates :
              /\ \E k \in 1..Len(viewing_months) :
                   viewing_months[k] = r.viewing_month
              /\ IF note_id # NoNoteId THEN r.note_id = note_id
                 ELSE r.general_note_month_key = general_note_month_key
              /\ CheckedCount(r.states) > 0}}

\* the look-ahead of the two impact queries
MAX_FUTURE_MONTHS == 12

\* source_note None
NoSourceNote == [id |-> NoNoteId, month_key |-> NoMonth, content_preview |-> ""]

\* the dict get_inheritance_impact / get_general_inheritance_impact return
\* over the decrypted timeline; the contents of the model are shorter than
\* 100 characters, so the preview is the content
ImpactOf(decrypted, month_key, general) ==
  IF ~decrypted.ok THEN [kind |-> "DecryptionError"]
  ELSE
    LET dicts == decrypted.dicts
        i == SourceNoteIndex(dicts, Len(dicts), month_key)
    IN  IF i = 0
        THEN [kind |-> "ok", source_note |-> NoSourceNote,
              affected_months |-> <<>>,
              months_with_checkbox_states |-> {},
              next_custom_note_month |-> NoMonth]
        ELSE
          LET next_custom_month == NextCustomMonth(dicts, 1, month_key)
              affected_months ==
                GetMonthsInRange(month_key, next_custom_month,
                                 MAX_FUTURE_MONTHS)
          IN  [kind |-> "ok",
               source_note |-> [id |-> dicts[i].id,
                                month_key |-> dicts[i].month_key,
                                content_preview |-> dicts[i].content],
               affected_months |-> affected_months,
               months_with_checkbox_states |->
                 IF general
                 THEN MonthsWithCheckboxData(affected_months, NoNoteId,
                                             dicts[i].month_key)
                 ELSE MonthsWithCheckboxData(affected_months, dicts[i].id,
                                             NoMonth),
               next_custom_note_month |-> next_custom_month]

GetInheritanceImpact(category_type, category_id, month_key, passphrase) ==
  /\ notesCalls < MaxNoteOps
  /\ notesCalls' = notesCalls + 1
  /\ notesRet' = [op |-> "get_inheritance_impact",
                  timeline |-> {n.month_key :
                                  n \in {r \in notes :
                                           /\ r.category_type = category_type
                                           /\ r.category_id = category_id}},
                  month_key |-> month_key,
                  ret |-> ImpactOf(GetNotesForCategory(category_type,
                                                       category_id,
                                                       passphrase),
                                   month_key, FALSE)]
  /\ UNCHANGED <<notes, generalNotes, archivedNotes, knownCategories, notesNow,
                 nextUuid, checkboxStates>>

GetGeneralInheritanceImpact(month_key, passphrase) ==
  /\ notesCalls < MaxNoteOps
  /\ notesCalls' = notesCalls + 1
  /\ notesRet' = [op |-> "get_general_inheritance_impact",
                  timeline |-> {n.month_key : n \in generalNotes},
                  month_key |-> month_key,
                  ret |-> ImpactOf(GetAllGeneralNotes(passphrase), month_key,
                                   TRUE)]
  /\ UNCHANGED <<notes, generalNotes, archivedNotes, knownCategories, notesNow,
                 nextUuid, checkboxStates>>

\* the months notes are stored under in the impact queries' timelines:
\* "2024-12", "2025-06", "2026-03"
ImpactStoredMonths == {<<2024, 12>>, <<2025, 6>>, <<2026, 3>>}

\* the months the impact queries ask about
ImpactQueryMonths ==
  {<<2024, 11>>, <<2024, 12>>, <<2025, 1>>, <<2025, 6>>, <<2025, 7>>,
   <<2026, 4>>}

\* the notes repository with its reads by id and its impact queries
ImpactNext ==
  \/ \E r \in CategoryRefs \ {<<"group", "c1">>}, i \in SaveInputs,
        m \in ImpactStoredMonths :
        SaveNote(r[1], r[2], i[1], m, i[2]) /\ NotesFrame
  \/ \E m \in ImpactStoredMonths :
        SaveGeneralNote(m, "a") /\ NotesFrame
  \/ \E id \in 1..MaxNoteOps, p \in Passphrases :
        GetNote(id, p) /\ NotesFrame
  \/ \E t \in {<<1, NoMonth>>, <<NoNoteId, <<2024, 12>>>>},
        vm \in {<<2025, 1>>, <<2025, 6>>}, b \in BOOLEAN :
        UpdateCheckboxState(vm, 0, b, t[1], t[2]) /\ NotesFrame
  \/ \E r \in CategoryRefs \ {<<"group", "c1">>}, m \in ImpactQueryMonths,
        p \in Passphrases :
        GetInheritanceImpact(r[1], r[2], m, p) /\ NotesFrame
  \/ \E m \in ImpactQueryMonths, p \in Passphrases :
        GetGeneralInheritanceImpact(m, p) /\ NotesFrame

\* the last call was an impact query that returned
ImpactReturned ==
  /\ notesRet.op \in {"get_inheritance_impact",
                      "get_general_inheritance_impact"}
  /\ notesRet.ret.kind = "ok"

\* a note of the queried timeline lies strictly before the queried month
HasPriorNote == \E m \in notesRet.timeline : MonthLT(m, notesRet.month_key)

\* the smallest stored month strictly after month_key, NoMonth without one
SmallestLaterMonth(months, month_key) ==
  LET later == {m \in months : MonthLT(month_key, m)}
  IN  IF later = {} THEN NoMonth
      ELSE CHOOSE m \in later : \A o \in later : MonthLE(m, o)

MonthIndex(m) == 12 * m[1] + (m[2] - 1)
MonthOfIndex(i) == <<i \div 12, (i % 12) + 1>>

\* the consecutive months from month_key up to, and without, the earlier of
\* next_custom_note_month and month_key + 12 months
ClaimedAffectedMonths(month_key, next_custom_note_month) ==
  LET n == IF next_custom_note_month = NoMonth THEN 12
           ELSE IF MonthIndex(next_custom_note_month)
                     - MonthIndex(month_key) < 12
             THEN MonthIndex(next_custom_note_month) - MonthIndex(month_key)
           ELSE 12
  IN  [k \in 1..n |-> MonthOfIndex(MonthIndex(month_key) + k - 1)]

NoteSessions == {"s1", "s2"}

IdleSession ==
  [pc |-> "idle", category_type |-> "", category_id |-> "",
   category_name |-> "", month_key |-> NoMonth, content |-> "",
   now |-> 0, existing |-> NoNoteId]

SessionsInit == noteSessions = [s \in NoteSessions |-> IdleSession]

\* save_note up to its query: now = datetime.utcnow() and the .first() row
\* with the key, as this session sees the committed rows
SaveNoteSelect(s, category_type, category_id, category_name, month_key, content) ==
  LET matching == {n \in notes : n.category_id = category_id
                                 /\ n.category_type = category_type
                                 /\ n.month_key = month_key}
  IN /\ noteSessions[s].pc = "idle"
     /\ notesCalls < MaxNoteOps
     /\ notesCalls' = notesCalls + 1
     /\ notesNow' = notesNow + 1
     /\ noteSessions' =
          [noteSessions EXCEPT ![s] =
             [pc |-> "selected", category_type |-> category_type,
              category_id |-> category_id, category_name |-> category_name,
              month_key |-> month_key, content |-> content, now |-> notesNow,
              existing |-> IF matching = {} THEN NoNoteId
                           ELSE (CHOOSE n \in matching : TRUE).id]]
     /\ UNCHANGED <<notes, generalNotes, archivedNotes, knownCategories,
                    nextUuid, notesRet, checkboxStates>>

\* the rows of notes after the session's flush: the row it read is updated,
\* or a new Note with a fresh uuid is added
FlushedNoteRows(rows, c, enc, uuid) ==
  IF c.existing # NoNoteId
  THEN {IF n.id = c.existing
          THEN [n EXCEPT !.content_encrypted = enc.ciphertext,
                         !.salt = enc.salt,
                         !.updated_at = c.now,
                         !.category_name = c.category_name]
          ELSE n : n \in rows}
  ELSE rows \cup
       {[id |-> uuid, category_type |-> c.category_type,
         category_id |-> c.category_id, category_name |-> c.category_name,
         month_key |-> c.month_key, content_encrypted |-> enc.ciphertext,
         salt |-> enc.salt, created_at |-> c.now, updated_at |-> c.now]}

\* the rest of save_note and the session's commit: the note is written,
\* _update_known_category runs, and the transaction commits
SaveNoteCommit(s) ==
  LET c == noteSessions[s]
      enc == EncryptContent(c.content, SessionPassphrase, c.now)
      rows == FlushedNoteRows(notes, c, enc, nextUuid)
      id == IF c.existing = NoNoteId THEN nextUuid ELSE c.existing
  IN /\ c.pc = "selected"
     /\ notes' = rows
     /\ nextUuid' = IF c.existing = NoNoteId THEN nextUuid + 1 ELSE nextUuid
     /\ knownCategories' = UpdateKnownCategory(knownCategories, c.category_id,
                                               c.category_name)
     /\ notesRet' = [op |-> "save_note",
                     ret |-> NoteToDict(CHOOSE n \in rows : n.id = id,
                                        c.content)]
     /\ noteSessions' = [noteSessions EXCEPT ![s] = IdleSession]
     /\ UNCHANGED <<generalNotes, archivedNotes, notesNow, notesCalls,
                    checkboxStates>>

\* a step of a session leaves the other subsystems alone
SessionsFrame ==
  UNCHANGED <<lockVars, frozenVars, viewVars, refundsVars, savedViewVars,
              lockCallerVars, migVars, schedVars>>

\* save_note requests, each in its own session, interleaved
SessionsNext ==
  \/ \E s \in NoteSessions, r \in CategoryRefs, i \in SaveInputs,
        m \in MonthKeys :
        SaveNoteSelect(s, r[1], r[2], i[1], m, i[2]) /\ SessionsFrame
  \/ \E s \in NoteSessions : SaveNoteCommit(s) /\ SessionsFrame

\* the (category_type, category_id, month_key) of a note
NoteKey(n) == <<n.category_type, n.category_id, n.month_key>>

\* C37: when two save_note requests for the same (category_type,
\* category_id, month_key) run concurrently, each in its own database
\* session, at most one Note row exists for that key after both have
\* committed.
C37_OneRowPerKey ==
  (\A s \in NoteSessions : noteSessions[s].pc = "idle") =>
    \A n1, n2 \in notes : NoteKey(n1) = NoteKey(n2) => n1 = n2

IsEffective(ret, timeline, target_month) ==
  LET cands == {n \in timeline : MonthLE(n.month_key, target_month)}
  IN IF cands = {}
       THEN ret.kind = "None"
       ELSE /\ ret.kind = "effective"
            /\ \E n \in cands :
                 /\ \A o \in cands : MonthLE(o.month_key, n.month_key)
                 /\ ret.note.id = n.id
                 /\ ret.note.month_key = n.month_key
                 /\ ret.note.content = n.content_encrypted[1]
            /\ ret.source_month = ret.note.month_key
            /\ ret.is_inherited = (ret.source_month # target_month)
            /\ \A n \in timeline :
                 n.month_key = target_month =>
                   ret.note.id = n.id /\ ~ret.is_inherited

\* C1: a get_effective_note / get_effective_general_note call that returns
\* (does not fail to decrypt) returns the stored note of the timeline with
\* the greatest month_key <= target_month, source_month is that note's
\* month_key, is_inherited is true exactly when source_month differs from
\* target_month, the result is None when no stored note is at or before
\* target_month, and a note stored at target_month itself is the result.
C1_EffectiveNote ==
  /\ (notesRet.op = "get_effective_note" /\ notesRet.ret.kind # "DecryptionError")
       => IsEffective(notesRet.ret,
                      {n \in notes : n.category_type = notesRet.category_type
                                     /\ n.category_id = notesRet.category_id},
                      notesRet.target_month)
  /\ (notesRet.op = "get_effective_general_note"
      /\ notesRet.ret.kind # "DecryptionError")
       => IsEffective(notesRet.ret, generalNotes, notesRet.target_month)

\* C1 witness: an inherited note was returned although the timeline also
\* holds a note after the target month
C1_Witness ==
  /\ notesRet.op = "get_effective_note"
  /\ notesRet.ret.kind = "effective"
  /\ notesRet.ret.is_inherited
  /\ \E n \in notes : /\ n.category_type = notesRet.category_type
                      /\ n.category_id = notesRet.category_id
                      /\ MonthLT(notesRet.target_month, n.month_key)

\* C8: after sync_categories(current_ids), for every category id that was in
\* KnownCategory and is not in current_ids, no Note and no KnownCategory row
\* of that id remains and each of its notes is an ArchivedNote with the same
\* id, month_key, ciphertext and salt, archived at the time of the call.
C8_ArchiveOnSync ==
  [][(notesRet'.op = "sync_categories" /\ notesCalls' = notesCalls + 1) =>
       \A cid \in {k.category_id : k \in knownCategories}
                    \ notesRet'.current_ids :
         /\ \A n \in notes' : n.category_id # cid
         /\ \A k \in knownCategories' : k.category_id # cid
         /\ \A n \in notes :
              n.category_id = cid =>
                \E a \in archivedNotes' :
                  /\ a.id = n.id
                  /\ a.month_key = n.month_key
                  /\ a.content_encrypted = n.content_encrypted
                  /\ a.salt = n.salt
                  /\ a.archived_at = notesNow]_vars

\* C8 witness: a sync that archived two notes of one deleted category id
C8_Witness ==
  /\ notesRet.op = "sync_categories"
  /\ notesRet.ret.archived_count = 2
  /\ Cardinality(archivedNotes) = 2
  /\ notes = {}

\* C23: sync_categories(current_ids) leaves every Note and every
\* KnownCategory row whose category id is in current_ids unchanged, removes
\* no note without archiving it (Note rows plus ArchivedNote rows number the
\* same before and after), and returns archived_count equal to the number
\* of notes it moved.
C23_SyncKeepsCurrent ==
  [][\A ids \in SUBSET CategoryIds : SyncCategories(ids) =>
       /\ \A n \in notes : n.category_id \in ids => n \in notes'
       /\ \A k \in knownCategories :
            k.category_id \in ids => k \in knownCategories'
       /\ notes' \subseteq notes
       /\ knownCategories' \subseteq knownCategories
       /\ Cardinality(notes') + Cardinality(archivedNotes')
            = Cardinality(notes) + Cardinality(archivedNotes)
       /\ \A n \in notes \ notes' :
            \E a \in archivedNotes' \ archivedNotes : a.id = n.id
       /\ notesRet'.ret.archived_count = Cardinality(notes \ notes')]_vars

\* C23 witness: a sync has archived the note of a category that is gone and
\* has kept the note of a category that is still current
C23_Witness ==
  /\ notesRet.op = "sync_categories"
  /\ notesRet.ret.archived_count = 1
  /\ Cardinality(archivedNotes) = 1
  /\ \E n \in notes : n.category_id \in notesRet.current_ids

\* C9: at most one Note exists per (category_type, category_id, month_key),
\* and a save_note on a key that has a note creates no row and keeps the id
\* and created_at of the row it updates.
C9_SaveNoteUpsert ==
  /\ [](\A n1, n2 \in notes : NoteKey(n1) = NoteKey(n2) => n1 = n2)
  /\ [][(notesRet'.op = "save_note" /\ notesCalls' = notesCalls + 1) =>
          \A p \in notes :
            NoteKey(p) = <<notesRet'.ret.category_type,
                           notesRet'.ret.category_id,
                           notesRet'.ret.month_key>> =>
              /\ Cardinality(notes') = Cardinality(notes)
              /\ notesRet'.ret.id = p.id
              /\ notesRet'.ret.created_at = p.created_at
              /\ \E n \in notes' : /\ n.id = p.id
                                   /\ n.created_at = p.created_at
                                   /\ n.updated_at = notesNow
                                   /\ NoteKey(n) = NoteKey(p)]_vars

\* C9 witness: a save_note has updated a row created by an earlier call
C9_Witness ==
  /\ notesRet.op = "save_note"
  /\ notesRet.ret.created_at < notesRet.ret.updated_at
  /\ Cardinality(notes) = 1

(***************************************************************************)
(* IP LOCKOUT  (src/services/security_service.py)                          *)
(***************************************************************************)
LOCKOUT_THRESHOLD == 10
LOCKOUT_DURATION_MINUTES == 15

IPs == {"ip1", "ip2"}
\* the ip_address argument: request.remote_addr may be missing
IpArgs == IPs \cup {None}

\* SELECT failed_attempts FROM ip_lockouts WHERE ip_address = ?
\* current_attempts = row["failed_attempts"] if row else 0
CurrentAttempts(rows, ip) ==
  IF \E r \in rows : r.ip_address = ip
    THEN (CHOOSE r \in rows : r.ip_address = ip).failed_attempts
    ELSE 0

\* an insert without the ON CONFLICT clause
InsertLockout(rows, ip, attempts, locked_until, now) ==
  rows \cup {[ip_address |-> ip, failed_attempts |-> attempts,
              locked_until |-> locked_until, last_attempt |-> now]}

\* INSERT INTO ip_lockouts ... ON CONFLICT(ip_address) DO UPDATE SET ...
UpsertLockout(rows, ip, attempts, locked_until, now) ==
  IF \E r \in rows : r.ip_address = ip
    THEN {IF r.ip_address = ip
            THEN [r EXCEPT !.failed_attempts = attempts,
                           !.locked_until = locked_until,
                           !.last_attempt = now]
            ELSE r : r \in rows}
    ELSE rows \cup {[ip_address |-> ip, failed_attempts |-> attempts,
                     locked_until |-> locked_until, last_attempt |-> now]}

\* a threshold test that is off by one
ShouldLockOutAfter(new_attempts) == new_attempts > LOCKOUT_THRESHOLD

\* if new_attempts >= LOCKOUT_THRESHOLD
ShouldLockOut(new_attempts) == new_attempts >= LOCKOUT_THRESHOLD

\* locked_until is NULL or a time; -1 stands for NULL
NoLock == -1

\* is_ip_locked_out with the comparison datetime.now(UTC) <= locked_until
IsLockedOutAtInclusive(rows, ip, now) ==
  \E r \in rows : /\ r.ip_address = ip
                  /\ r.locked_until # NoLock
                  /\ now <= r.locked_until

\* the answer of is_ip_locked_out on the rows at time now
IsLockedOutAt(rows, ip, now) ==
  \E r \in rows : /\ r.ip_address = ip
                  /\ r.locked_until # NoLock
                  /\ now < r.locked_until

\* DELETE FROM ip_lockouts without its WHERE clause
ClearRowsOfAll(rows, ip) == {}

\* DELETE FROM ip_lockouts WHERE ip_address = ?
ClearRows(rows, ip) == {r \in rows : r.ip_address # ip}

\* the state of ip in the lockout state machine, recorded with each call's
\* result: no row, a row without locked_until, a row whose locked_until is
\* ahead, a row whose locked_until has passed
LockState(rows, ip, now) ==
  IF \A r \in rows : r.ip_address # ip THEN "Clean"
  ELSE IF \E r \in rows : r.ip_address = ip /\ r.locked_until = NoLock
    THEN "Warning"
  ELSE IF \E r \in rows : r.ip_address = ip /\ now < r.locked_until
    THEN "LockedOut"
  ELSE "Expired"

RecordFailedRemoteUnlock(ip) ==
  IF ip = None
    THEN /\ lockRet' = [op |-> "record_failed_remote_unlock", ip |-> ip,
                        ret |-> FALSE, now |-> lockNow,
                        was |-> LockState(ipLockouts, ip, lockNow)]
         /\ UNCHANGED <<ipLockouts, lockNow, failedCalls>>
    ELSE LET new_attempts == CurrentAttempts(ipLockouts, ip) + 1
             locked_until == IF ShouldLockOut(new_attempts)
                               THEN lockNow + LOCKOUT_DURATION_MINUTES
                               ELSE NoLock
         IN /\ new_attempts <= MaxAttempts
            /\ ipLockouts' = UpsertLockout(ipLockouts, ip, new_attempts,
                                           locked_until, lockNow)
            /\ failedCalls' = [failedCalls EXCEPT ![ip] = @ + 1]
            /\ lockRet' = [op |-> "record_failed_remote_unlock", ip |-> ip,
                           ret |-> ShouldLockOut(new_attempts),
                           now |-> lockNow,
                        was |-> LockState(ipLockouts, ip, lockNow)]
            /\ UNCHANGED lockNow

IsIpLockedOut(ip) ==
  LET hasLock == \E r \in ipLockouts : r.ip_address = ip
                                       /\ r.locked_until # NoLock
      locked == IsLockedOutAt(ipLockouts, ip, lockNow)
  IN /\ lockRet' = [op |-> "is_ip_locked_out", ip |-> ip, ret |-> locked,
                    now |-> lockNow,
                        was |-> LockState(ipLockouts, ip, lockNow)]
     /\ IF ip # None /\ hasLock /\ ~locked
          THEN \* lockout expired, clear it
               /\ ipLockouts' = ClearRows(ipLockouts, ip)
               /\ failedCalls' = [failedCalls EXCEPT ![ip] = 0]
          ELSE UNCHANGED <<ipLockouts, failedCalls>>
     /\ UNCHANGED lockNow

ClearIpLockout(ip) ==
  /\ IF ip = None
       THEN UNCHANGED <<ipLockouts, failedCalls>>
       ELSE /\ ipLockouts' = ClearRows(ipLockouts, ip)
            /\ failedCalls' = [failedCalls EXCEPT ![ip] = 0]
  /\ lockRet' = [op |-> "clear_ip_lockout", ip |-> ip, ret |-> FALSE,
                 now |-> lockNow,
                        was |-> LockState(ipLockouts, ip, lockNow)]
  /\ UNCHANGED lockNow

LockTick ==
  /\ lockNow + ClockStepMinutes <= MaxLockNow
  /\ lockNow' = lockNow + ClockStepMinutes
  /\ UNCHANGED <<ipLockouts, failedCalls, lockRet>>

LockInit ==
  /\ ipLockouts = {}
  /\ lockNow = 0
  /\ failedCalls = [ip \in IPs |-> 0]
  /\ lockRet = [op |-> "none", ip |-> None, ret |-> FALSE, now |-> 0,
                was |-> "Clean"]

\* a step of the security service leaves the other subsystems alone
LockFrame ==
  UNCHANGED <<notesVars, frozenVars, viewVars, refundsVars, savedViewVars,
              lockCallerVars,
              migVars, schedVars, checkboxVars, sessionVars>>

LockNext ==
  \/ \E ip \in IpArgs : RecordFailedRemoteUnlock(ip) /\ LockFrame
  \/ \E ip \in IpArgs : IsIpLockedOut(ip) /\ LockFrame
  \/ \E ip \in IpArgs : ClearIpLockout(ip) /\ LockFrame
  \/ LockTick /\ LockFrame

\* C2: at most one lockout row exists per IP; counting the
\* record_failed_remote_unlock calls for an IP from a state without a row
\* for it, with no clear in between, calls one to nine return false and
\* leave the IP not locked out, and call ten returns true and sets
\* locked_until to 15 minutes after the call, so that the IP is locked out.
C2_LockoutAtTenth ==
  /\ \A r1, r2 \in ipLockouts : r1.ip_address = r2.ip_address => r1 = r2
  /\ \A ip \in IPs :
       /\ failedCalls[ip] \in 1..(LOCKOUT_THRESHOLD - 1) =>
            /\ \A t \in 0..MaxLockNow : ~IsLockedOutAt(ipLockouts, ip, t)
            /\ (lockRet.op = "record_failed_remote_unlock" /\ lockRet.ip = ip)
                 => lockRet.ret = FALSE
       /\ (failedCalls[ip] = LOCKOUT_THRESHOLD
           /\ lockRet.op = "record_failed_remote_unlock" /\ lockRet.ip = ip) =>
            /\ lockRet.ret = TRUE
            /\ \E r \in ipLockouts :
                 /\ r.ip_address = ip
                 /\ r.locked_until = lockRet.now + LOCKOUT_DURATION_MINUTES
            /\ IsLockedOutAt(ipLockouts, ip, lockRet.now)

\* C15: is_ip_locked_out(ip) returns true exactly when ip has a row whose
\* locked_until is later than the current time; when the row's locked_until
\* has passed, the call deletes the row of ip and returns false.
C15_LockedOutIffUnexpired ==
  [][\A ip \in IPs : IsIpLockedOut(ip) =>
       LET ahead == \E r \in ipLockouts : /\ r.ip_address = ip
                                           /\ r.locked_until # NoLock
                                           /\ r.locked_until > lockNow
           passed == \E r \in ipLockouts : /\ r.ip_address = ip
                                            /\ r.locked_until # NoLock
                                            /\ r.locked_until <= lockNow
       IN /\ lockRet'.ret = ahead
          /\ passed => /\ lockRet'.ret = FALSE
                       /\ \A r \in ipLockouts' : r.ip_address # ip
          /\ ~passed => ipLockouts' = ipLockouts
          /\ \A r \in ipLockouts :
               r.ip_address # ip => r \in ipLockouts']_vars

\* C15 witness: is_ip_locked_out has found the expired lockout of an IP,
\* answered false and removed the row
C15_Witness ==
  /\ lockRet.op = "is_ip_locked_out"
  /\ lockRet.ip = "ip1"
  /\ lockRet.was = "Expired"
  /\ lockRet.ret = FALSE
  /\ \A r \in ipLockouts : r.ip_address # "ip1"

\* C16: clear_ip_lockout(ip) removes the row of ip whatever state ip is in;
\* afterwards ip is not locked out, being locked out again takes ten
\* failures recorded after the clear, and the rows of the other IPs are
\* unchanged.
C16_ClearResets ==
  [][\A ip \in IPs :
       /\ ClearIpLockout(ip) =>
            /\ \A r \in ipLockouts' : r.ip_address # ip
            /\ \A t \in 0..MaxLockNow : ~IsLockedOutAt(ipLockouts', ip, t)
            /\ failedCalls'[ip] = 0
            /\ {r \in ipLockouts' : r.ip_address # ip}
                 = {r \in ipLockouts : r.ip_address # ip}
       /\ (\E r \in ipLockouts' : r.ip_address = ip
                                   /\ r.locked_until # NoLock)
            => failedCalls'[ip] >= LOCKOUT_THRESHOLD]_vars

\* C16 witness: a locked-out IP has just been cleared while the other IP
\* keeps its row
C16_Witness ==
  /\ lockRet.op = "clear_ip_lockout"
  /\ lockRet.ip = "ip1"
  /\ lockRet.was = "LockedOut"
  /\ \A r \in ipLockouts : r.ip_address # "ip1"
  /\ \E r \in ipLockouts : r.ip_address = "ip2"

\* C17: once the current time is past locked_until the IP is back in state
\* Clean: the next record_failed_remote_unlock counts as the first failure
\* of a new series and does not lock the IP out.
C17_ExpiredIsClean ==
  [][\A ip \in IPs :
       (/\ RecordFailedRemoteUnlock(ip)
        /\ LockState(ipLockouts, ip, lockNow) = "Expired") =>
         /\ lockRet'.ret = FALSE
         /\ CurrentAttempts(ipLockouts', ip) = 1
         /\ ~IsLockedOutAt(ipLockouts', ip, lockNow')]_vars

\* C2 witness: the tenth failed attempt of an IP has just been recorded
C2_Witness ==
  /\ lockRet.op = "record_failed_remote_unlock"
  /\ lockRet.ip = "ip1"
  /\ lockRet.ret = TRUE
  /\ failedCalls["ip1"] = LOCKOUT_THRESHOLD

(***************************************************************************)
(* IP LOCKOUT, threads: the service is one object with one connection      *)
(* opened with check_same_thread=False, and record_failed_remote_unlock    *)
(* holds no lock between its SELECT and its upsert.                        *)
(***************************************************************************)
LockThreads == {"th1", "th2"}

IdleCaller == [pc |-> "idle", ip |-> None, current_attempts |-> 0]

\* the threads that are inside record_failed_remote_unlock for ip
InFlightFor(ip) ==
  {d \in LockThreads : lockCallers[d].pc = "upsert" /\ lockCallers[d].ip = ip}

\* record_failed_remote_unlock, lines 655-666: the thread reads the count
RecordFailedSelect(c, ip) ==
  /\ lockCallers[c].pc = "idle"
  /\ failedCalls[ip] + Cardinality(InFlightFor(ip)) < MaxAttempts
  /\ lockCallers' = [lockCallers EXCEPT ![c] =
       [pc |-> "upsert", ip |-> ip,
        current_attempts |-> CurrentAttempts(ipLockouts, ip)]]
  /\ UNCHANGED lockVars

\* record_failed_remote_unlock, lines 666-695: the thread writes the count
\* it computed from what it read, commits and returns
RecordFailedUpsert(c) ==
  /\ lockCallers[c].pc = "upsert"
  /\ LET ip == lockCallers[c].ip
         new_attempts == lockCallers[c].current_attempts + 1
         locked_until == IF ShouldLockOut(new_attempts)
                           THEN lockNow + LOCKOUT_DURATION_MINUTES
                           ELSE NoLock
     IN  /\ ipLockouts' = UpsertLockout(ipLockouts, ip, new_attempts,
                                        locked_until, lockNow)
         /\ failedCalls' = [failedCalls EXCEPT ![ip] = @ + 1]
         /\ lockRet' = [op |-> "record_failed_remote_unlock", ip |-> ip,
                        ret |-> ShouldLockOut(new_attempts),
                        now |-> lockNow,
                        was |-> LockState(ipLockouts, ip, lockNow)]
  /\ lockCallers' = [lockCallers EXCEPT ![c] = IdleCaller]
  /\ UNCHANGED lockNow

LockCallersInit == lockCallers = [c \in LockThreads |-> IdleCaller]

\* a step of a thread leaves the other subsystems alone
LockCallersFrame ==
  UNCHANGED <<notesVars, frozenVars, viewVars, refundsVars, savedViewVars,
              migVars, schedVars, checkboxVars, sessionVars>>

LockCallersNext ==
  \/ \E c \in LockThreads, ip \in IPs :
        RecordFailedSelect(c, ip) /\ LockCallersFrame
  \/ \E c \in LockThreads : RecordFailedUpsert(c) /\ LockCallersFrame

\* C14: when record_failed_remote_unlock calls for one IP interleave, no
\* increment is lost: once the calls have returned, failed_attempts has
\* grown by the number of calls, so that ten failed attempts give a lockout.
C14_NoLostIncrement ==
  (\A c \in LockThreads : lockCallers[c].pc = "idle") =>
    \A ip \in IPs :
      /\ CurrentAttempts(ipLockouts, ip) = failedCalls[ip]
      /\ failedCalls[ip] >= LOCKOUT_THRESHOLD =>
           \E r \in ipLockouts : r.ip_address = ip /\ r.locked_until # NoLock

(***************************************************************************)
(* INLINE MIGRATIONS (src/state/db/inline_migrations.py)                   *)
(***************************************************************************)
SCHEMA_VERSION == 6

\* number of run_migrations calls in one behaviour
MaxMigrationRuns == 2

\* MIGRATIONS: the version of each entry and the kind of its "sql"
MIGRATIONS ==
  << [version |-> 1, sql |-> "none"],
     [version |-> 2, sql |-> "script"],
     [version |-> 3, sql |-> "callable"],
     [version |-> 4, sql |-> "callable"],
     [version |-> 5, sql |-> "callable"],
     [version |-> 6, sql |-> "callable"] >>

\* schema_version has no table (and so no row)
NoVersionRow == -1

\* the databases an earlier start of the application can have left: a file
\* without tables, a file with tables and no schema_version table, a file
\* whose schema_version row holds a version written by set_schema_version
ExistingDatabases ==
  {[exists |-> TRUE, notes |-> FALSE, version |-> NoVersionRow],
   [exists |-> TRUE, notes |-> TRUE, version |-> NoVersionRow]}
  \cup {[exists |-> TRUE, notes |-> TRUE, version |-> v] :
          v \in 1..SCHEMA_VERSION}

NoDatabase == [exists |-> FALSE, notes |-> FALSE, version |-> NoVersionRow]

\* get_schema_version
GetSchemaVersion(db) ==
  IF db.version = NoVersionRow
    THEN IF db.notes THEN 1 ELSE 0
    ELSE db.version

\* set_schema_version: creates the table when absent and upserts the row
SetSchemaVersion(db, version) == [db EXCEPT !.version = version]

\* the loop's test with > in place of >=
AlreadyAppliedStrict(current_version, version) == current_version > version

\* the loop's test "if current_version >= version: continue"
AlreadyApplied(current_version, version) == current_version >= version

MigrationOutcomes == {"ok", "raises"}

IdleRun ==
  [pc |-> "idle", current_version |-> 0, index |-> 0, applied |-> <<>>,
   recorded |-> <<>>, failed |-> 0, before |-> NoDatabase]

\* an exception inside the loop is logged and swallowed, the loop goes on
AfterMigrationFailureContinue(run, version) ==
  [run EXCEPT !.index = @ + 1, !.pc = "loop", !.failed = version]

\* an exception inside the try block: "except Exception: ... raise", the
\* connection is closed and run_migrations is left
AfterMigrationFailure(run, version) ==
  [run EXCEPT !.pc = "raised", !.failed = version]

\* the application's database file comes into existence
InstallDatabase(db) ==
  /\ ~dbFile.exists
  /\ migRun.pc = "idle"
  /\ dbFile' = db
  /\ UNCHANGED <<migRun, migLog, migRuns>>

\* run_migrations up to the loop: the early returns and the version read
RunMigrationsStart ==
  /\ migRun.pc \in {"idle", "returned", "raised"}
  /\ migRuns < MaxMigrationRuns
  /\ migRuns' = migRuns + 1
  /\ LET current_version == GetSchemaVersion(dbFile)
         run == [IdleRun EXCEPT !.before = dbFile,
                                !.current_version = current_version]
     IN  migRun' =
           IF ~dbFile.exists
             THEN [run EXCEPT !.pc = "returned", !.current_version = 0]
           ELSE IF current_version >= SCHEMA_VERSION
             THEN [run EXCEPT !.pc = "returned"]
           ELSE [run EXCEPT !.pc = "loop", !.index = 1]
  /\ UNCHANGED <<dbFile, migLog>>

\* one iteration of the loop up to set_schema_version: the entry is skipped,
\* or it runs (its sql, when it has one, is executed), or its sql raises and
\* run_migrations re-raises
MigrationRun(outcome) ==
  /\ migRun.pc = "loop"
  /\ migRun.index <= Len(MIGRATIONS)
  /\ LET migration == MIGRATIONS[migRun.index]
     IN  IF AlreadyApplied(migRun.current_version, migration.version)
           THEN /\ outcome = "ok"
                /\ migRun' = [migRun EXCEPT !.index = @ + 1]
                /\ UNCHANGED migLog
         ELSE IF outcome = "ok"
           THEN /\ migRun' = [migRun EXCEPT !.pc = "record",
                                !.applied = Append(@, migration.version)]
                /\ migLog' = Append(migLog, migration.version)
         ELSE /\ migration.sql # "none"
              /\ migRun' = AfterMigrationFailure(migRun, migration.version)
              /\ UNCHANGED migLog
  /\ UNCHANGED <<dbFile, migRuns>>

\* the end of an iteration: set_schema_version(conn, version) stores the
\* version, or raises before its commit
MigrationRecord(outcome) ==
  /\ migRun.pc = "record"
  /\ LET version == MIGRATIONS[migRun.index].version
     IN  IF outcome = "ok"
           THEN /\ dbFile' = SetSchemaVersion(dbFile, version)
                /\ migRun' = [migRun EXCEPT !.pc = "loop", !.index = @ + 1,
                                !.recorded = Append(@, version)]
           ELSE /\ migRun' = AfterMigrationFailure(migRun, version)
                /\ UNCHANGED dbFile
  /\ UNCHANGED <<migLog, migRuns>>

\* the loop is over: run_migrations logs and returns
RunMigrationsReturn ==
  /\ migRun.pc = "loop"
  /\ migRun.index > Len(MIGRATIONS)
  /\ migRun' = [migRun EXCEPT !.pc = "returned"]
  /\ UNCHANGED <<dbFile, migLog, migRuns>>

MigInit ==
  /\ dbFile = NoDatabase
  /\ migRun = IdleRun
  /\ migLog = <<>>
  /\ migRuns = 0

\* a step of the migrations leaves the other subsystems alone
MigFrame ==
  UNCHANGED <<notesVars, lockVars, frozenVars, viewVars, refundsVars,
              savedViewVars, lockCallerVars, schedVars, checkboxVars, sessionVars>>

MigNext ==
  \/ \E db \in ExistingDatabases : InstallDatabase(db) /\ MigFrame
  \/ RunMigrationsStart /\ MigFrame
  \/ \E outcome \in MigrationOutcomes : MigrationRun(outcome) /\ MigFrame
  \/ \E outcome \in MigrationOutcomes : MigrationRecord(outcome) /\ MigFrame
  \/ RunMigrationsReturn /\ MigFrame

\* the versions first..SCHEMA_VERSION, ascending
VersionsFrom(first) ==
  [i \in 1..(IF first > SCHEMA_VERSION THEN 0 ELSE SCHEMA_VERSION - first + 1)
     |-> first + i - 1]

\* C20: a run of run_migrations on an existing database that returns has
\* applied exactly the migrations whose version is above the version stored
\* when it started, in ascending order and each once, the version is
\* recorded after each of them, and the stored version ends as
\* SCHEMA_VERSION; a run that starts at SCHEMA_VERSION applies nothing and
\* leaves the database as it was.
C20_AppliesPendingInOrder ==
  [][/\ (migRun'.pc = "returned" /\ migRun'.before.exists) =>
          /\ GetSchemaVersion(dbFile') = SCHEMA_VERSION
          /\ migRun'.applied =
               VersionsFrom(GetSchemaVersion(migRun'.before) + 1)
     /\ MigrationRecord("ok") =>
          /\ GetSchemaVersion(dbFile') = MIGRATIONS[migRun.index].version
          /\ GetSchemaVersion(dbFile') > GetSchemaVersion(dbFile)
     /\ (migRun'.pc = "loop" /\ migRun'.applied # <<>>) =>
          GetSchemaVersion(dbFile') = migRun'.applied[Len(migRun'.applied)]
     /\ \A i, j \in 1..Len(migRun'.applied) :
          i < j => migRun'.applied[i] < migRun'.applied[j]
     /\ (RunMigrationsStart
         /\ GetSchemaVersion(dbFile) = SCHEMA_VERSION) =>
          /\ migRun'.pc = "returned"
          /\ migRun'.applied = <<>>
          /\ dbFile' = dbFile
          /\ migLog' = migLog]_vars

\* C20 witness: a run that started on a database at version 3 has returned
\* after the migrations 4, 5 and 6, and a second run has returned after it
C20_Witness ==
  /\ migRun.pc = "returned"
  /\ migRuns = 2
  /\ migRun.applied = <<>>
  /\ migLog = <<4, 5, 6>>
  /\ dbFile.version = SCHEMA_VERSION

FOREGROUND_INTERVAL_MINUTES == 5
BACKGROUND_INTERVAL_MINUTES == 60

\* number of run times of the sync job that pass in one behaviour
MaxTicks == 3

SchedWorkers == {"w1", "w2"}

SYNC_CALLBACK == "sync"

NoJob ==
  [scheduled |-> FALSE, interval |-> 0, max_instances |-> 0,
   coalesce |-> FALSE]

\* the job of add_job without coalesce=True
SyncJobNoCoalesce(interval) ==
  [scheduled |-> TRUE, interval |-> interval, max_instances |-> 1,
   coalesce |-> FALSE]

\* the job handed to add_job
SyncJob(interval) ==
  [scheduled |-> TRUE, interval |-> interval, max_instances |-> 1,
   coalesce |-> TRUE]

\* an interval that ignores the visibility state
IntervalForForegroundOnly(is_foreground) == FOREGROUND_INTERVAL_MINUTES

\* the interval of the visibility state
IntervalFor(is_foreground) ==
  IF is_foreground THEN FOREGROUND_INTERVAL_MINUTES
                   ELSE BACKGROUND_INTERVAL_MINUTES

FreeWorker == [state |-> "free", left |-> 0]

\* the number of runs of the job the executor has not finished
Instances == Cardinality({w \in SchedWorkers : workers[w].state # "free"})

\* the number of workers inside the sync callback
InFlight == Cardinality({w \in SchedWorkers : workers[w].state = "calling"})

Start ==
  /\ isStarted' = TRUE
  /\ UNCHANGED <<isForeground, autoSyncEnabled, syncCallback,
                 sessionCredentials, job, dueRuns, workers, lastWake,
                 lastFire, ticks>>

\* shutdown(wait=False): runs in flight complete on their own threads
Shutdown ==
  /\ isStarted' = FALSE
  /\ UNCHANGED <<isForeground, autoSyncEnabled, syncCallback,
                 sessionCredentials, job, dueRuns, workers, lastWake,
                 lastFire, ticks>>

SetSyncCallback ==
  /\ syncCallback' = SYNC_CALLBACK
  /\ UNCHANGED <<isStarted, isForeground, autoSyncEnabled,
                 sessionCredentials, job, dueRuns, workers, lastWake,
                 lastFire, ticks>>

\* enable_auto_sync: the job is removed and added anew with the interval of
\* the visibility state
EnableAutoSync ==
  /\ autoSyncEnabled' = TRUE
  /\ job' = SyncJob(IntervalFor(isForeground))
  /\ dueRuns' = 0
  /\ UNCHANGED <<isStarted, isForeground, syncCallback, sessionCredentials,
                 workers, lastWake, lastFire, ticks>>

DisableAutoSync ==
  /\ autoSyncEnabled' = FALSE
  /\ job' = NoJob
  /\ dueRuns' = 0
  /\ UNCHANGED <<isStarted, isForeground, syncCallback, sessionCredentials,
                 workers, lastWake, lastFire, ticks>>

SetForeground(is_foreground) ==
  /\ isForeground' = is_foreground
  /\ IF isForeground # is_foreground /\ autoSyncEnabled
       THEN /\ job' = SyncJob(IntervalFor(is_foreground))
            /\ dueRuns' = 0
       ELSE UNCHANGED <<job, dueRuns>>
  /\ UNCHANGED <<isStarted, autoSyncEnabled, syncCallback,
                 sessionCredentials, workers, lastWake, lastFire, ticks>>

\* the session credentials appear (login, unlock) or go away (lock, logout)
SetSessionCredentials(present) ==
  /\ sessionCredentials' = present
  /\ UNCHANGED <<isStarted, isForeground, autoSyncEnabled, syncCallback,
                 job, dueRuns, workers, lastWake, lastFire, ticks>>

\* a run time of the job passes
IntervalElapses ==
  /\ job.scheduled
  /\ ticks < MaxTicks
  /\ ticks' = ticks + 1
  /\ dueRuns' = dueRuns + 1
  /\ UNCHANGED <<isStarted, isForeground, autoSyncEnabled, syncCallback,
                 sessionCredentials, job, workers, lastWake, lastFire>>

\* the scheduler looks at the job: the due run times are coalesced to one
\* when the job says so, and they are handed to a worker unless max_instances
\* runs of the job are unfinished
ProcessJobs ==
  /\ isStarted
  /\ job.scheduled
  /\ dueRuns > 0
  /\ LET run_times == IF job.coalesce THEN 1 ELSE dueRuns
     IN  /\ IF Instances >= job.max_instances
              THEN UNCHANGED workers
              ELSE LET w == CHOOSE v \in SchedWorkers :
                              workers[v].state = "free"
                   IN  workers' = [workers EXCEPT ![w] =
                         [state |-> "queued", left |-> run_times]]
         /\ lastWake' = [due |-> dueRuns, busy |-> Instances > 0]
  /\ dueRuns' = 0
  /\ UNCHANGED <<isStarted, isForeground, autoSyncEnabled, syncCallback,
                 sessionCredentials, job, lastFire, ticks>>

\* the worker is done with one run time
WorkerAfterRun(wk) ==
  IF wk.left > 1 THEN [state |-> "queued", left |-> wk.left - 1]
                 ELSE FreeWorker

\* _run_sync_wrapper up to the call of the callback
RunSyncWrapper(w) ==
  /\ workers[w].state = "queued"
  /\ IF syncCallback = None
       THEN /\ workers' = [workers EXCEPT ![w] = WorkerAfterRun(@)]
            /\ lastFire' = [lastFire EXCEPT
                              !.fired = TRUE, !.invoked = FALSE,
                              !.credentials = sessionCredentials]
       ELSE /\ workers' = [workers EXCEPT ![w].state = "calling"]
            /\ lastFire' = [lastFire EXCEPT
                              !.fired = TRUE, !.invoked = TRUE,
                              !.credentials = sessionCredentials]
  /\ UNCHANGED <<isStarted, isForeground, autoSyncEnabled, syncCallback,
                 sessionCredentials, job, dueRuns, lastWake, ticks>>

SyncOutcomes == {"ok", "raises"}

\* a wrapper without its except clause: what the callback raises leaves it
WrapperRaisesUncaught(outcome) == outcome = "raises"

\* except Exception as e: logger.error(...) -- nothing that the callback
\* raises leaves the wrapper
WrapperRaises(outcome) == FALSE

\* _run_sync_wrapper from the end of the callback: the loop is closed and
\* an exception of the callback is logged
SyncCallbackEnds(w, outcome) ==
  /\ workers[w].state = "calling"
  /\ workers' = [workers EXCEPT ![w] = WorkerAfterRun(@)]
  \* history: a run of the callback has raised, and whether the exception
  \* went on to the scheduler
  /\ lastFire' = [lastFire EXCEPT
                    !.raised = @ \/ outcome = "raises",
                    !.propagated = @ \/ WrapperRaises(outcome)]
  /\ UNCHANGED <<isStarted, isForeground, autoSyncEnabled, syncCallback,
                 sessionCredentials, job, dueRuns, lastWake, ticks>>

SchedInit ==
  /\ isStarted = FALSE
  /\ isForeground = TRUE
  /\ autoSyncEnabled = FALSE
  /\ syncCallback = None
  /\ sessionCredentials = FALSE
  /\ job = NoJob
  /\ dueRuns = 0
  /\ workers = [w \in SchedWorkers |-> FreeWorker]
  /\ lastWake = [due |-> 0, busy |-> FALSE]
  /\ lastFire = [fired |-> FALSE, invoked |-> FALSE, credentials |-> FALSE,
                 raised |-> FALSE, propagated |-> FALSE]
  /\ ticks = 0

\* a step of the scheduler leaves the other subsystems alone
SchedFrame ==
  UNCHANGED <<notesVars, lockVars, frozenVars, viewVars, refundsVars,
              savedViewVars, lockCallerVars, migVars, checkboxVars, sessionVars>>

SchedNext ==
  \/ Start /\ SchedFrame
  \/ Shutdown /\ SchedFrame
  \/ SetSyncCallback /\ SchedFrame
  \/ EnableAutoSync /\ SchedFrame
  \/ DisableAutoSync /\ SchedFrame
  \/ \E is_foreground \in BOOLEAN : SetForeground(is_foreground) /\ SchedFrame
  \/ \E present \in BOOLEAN : SetSessionCredentials(present) /\ SchedFrame
  \/ IntervalElapses /\ SchedFrame
  \/ ProcessJobs /\ SchedFrame
  \/ \E w \in SchedWorkers : RunSyncWrapper(w) /\ SchedFrame
  \/ \E w \in SchedWorkers, outcome \in SyncOutcomes :
       SyncCallbackEnds(w, outcome) /\ SchedFrame

\* the runs of the job function that the workers still hold
RunsHeld(ws) == ws["w1"].left + ws["w2"].left

\* C18: at most one execution of the sync callback started by the scheduler
\* is in flight at any time; when the scheduler finds the job due while a
\* run of it is unfinished it starts nothing, and when it finds several run
\* times due it starts a single run.
C18_OneSyncInFlight ==
  [][/\ Cardinality({w \in SchedWorkers : workers'[w].state = "calling"}) <= 1
     /\ Cardinality({w \in SchedWorkers : workers'[w].state # "free"}) <= 1
     /\ (ProcessJobs /\ Instances > 0) => workers' = workers
     /\ (ProcessJobs /\ Instances = 0) =>
          /\ RunsHeld(workers') = 1
          /\ Cardinality({w \in SchedWorkers : workers'[w].state = "queued"})
               = 1]_vars

\* C18 witness: while a sync is in flight the scheduler has found several
\* missed run times of the job and has started nothing
C18_Witness ==
  /\ InFlight = 1
  /\ Instances = 1
  /\ lastWake.busy
  /\ lastWake.due >= 2
  /\ dueRuns = 0

\* C19: when the sync job fires while no session credentials are present,
\* the wrapper returns without invoking the registered callback.
C19_NoCredentialsNoSync ==
  (lastFire.fired /\ ~lastFire.credentials) => ~lastFire.invoked

\* C38: in every state reached through enable_auto_sync, disable_auto_sync
\* and set_foreground a sync job is scheduled exactly when auto-sync is
\* enabled, there is one job at most, and its interval is 5 minutes in the
\* foreground and 60 minutes in the background; set_foreground never
\* schedules a job while auto-sync is disabled.
C38_JobFollowsAutoSync ==
  /\ [](/\ job.scheduled <=> autoSyncEnabled
        /\ job.scheduled => job.interval = IF isForeground THEN 5 ELSE 60
        /\ ~job.scheduled => job = NoJob)
  /\ [][(isForeground' # isForeground /\ ~autoSyncEnabled) =>
          (~job'.scheduled /\ ~autoSyncEnabled')]_vars

\* C38 witness: auto-sync was enabled and the app went to the background;
\* the job runs every 60 minutes
C38_Witness ==
  /\ autoSyncEnabled
  /\ ~isForeground
  /\ job.scheduled
  /\ job.interval = 60

\* C40: an exception raised by the sync callback is caught inside the job
\* wrapper and does not reach the scheduler, so the job stays scheduled and
\* later ticks invoke the callback again; a tick that fires while no
\* callback is registered runs nothing.
C40_CallbackFailureContained ==
  /\ [](~lastFire.propagated)
  /\ [][\A w \in SchedWorkers :
          /\ (workers[w].state = "calling" /\ workers'[w].state # "calling")
               => /\ job' = job
                  /\ autoSyncEnabled' = autoSyncEnabled
                  /\ workers'[w] = WorkerAfterRun(workers[w])
          /\ (workers[w].state = "queued" /\ workers'[w] # workers[w])
               => IF syncCallback = None
                    THEN /\ workers'[w].state # "calling"
                         /\ ~lastFire'.invoked
                         /\ InFlight = 0 => \A v \in SchedWorkers :
                                              workers'[v].state # "calling"
                    ELSE /\ workers'[w].state = "calling"
                         /\ lastFire'.invoked]_vars

\* C40 witness: a run of the callback has raised, the job is still
\* scheduled and a later tick has the callback running again
C40_Witness ==
  /\ lastFire.raised
  /\ ~lastFire.propagated
  /\ job.scheduled
  /\ InFlight = 1
  /\ ticks >= 2

(***************************************************************************)
(* FROZEN TARGET CALCULATOR  (src/services/frozen_target_calculator.py)    *)
(***************************************************************************)
RecurringIds == {"r1", "r2"}
\* (amount, rollover_amount) pairs: behind, partly funded, nothing to save
AmountRollovers == {<<600, 0>>, <<600, 100>>, <<0, 0>>}
\* (amount, rollover_amount) pairs at the edges of the rounding: small
\* amounts whose yearly rate is 2.5 or 0.4, nothing to save with a rollover,
\* nothing to save with a negative rollover
EdgeAmountRollovers == {<<25, 0>>, <<4, 0>>, <<0, 100>>, <<0, -10>>}
\* frequency_months as <<numerator, denominator>>: weekly (0.25), monthly,
\* yearly
Frequencies == {<<1, 4>>, <<1, 1>>, <<12, 1>>}
\* frequency_months = 0
ZeroFrequency == <<0, 1>>
\* (months_until_due, budgeted_this_month) pairs
DueBudgets == {<<10, 0>>, <<0, 40>>}
DueDates == {None, "2025-12-15"}
CurrentMonths == {"2025-03", "2025-04"}

\* the calls of the model: every combination for item r1, the edges of the
\* rounding for r1 in one month, and a yearly item r2 beside it
FrozenCalls ==
  [recurring_id : {"r1"}, amount_rollover : AmountRollovers,
   frequency_months : Frequencies, due_budget : DueBudgets,
   next_due_date : DueDates, current_month : CurrentMonths]
  \cup
  [recurring_id : {"r1"}, amount_rollover : EdgeAmountRollovers,
   frequency_months : Frequencies \cup {ZeroFrequency},
   due_budget : DueBudgets,
   next_due_date : {None}, current_month : {"2025-03"}]
  \cup
  [recurring_id : {"r2"}, amount_rollover : {<<600, 0>>},
   frequency_months : {<<12, 1>>}, due_budget : DueBudgets,
   next_due_date : {None}, current_month : CurrentMonths]

Max(a, b) == IF a >= b THEN a ELSE b

\* a rounding that truncates the rate
RoundMonthlyRateTruncating(num, den) ==
  IF num <= 0 THEN 0 ELSE Max(1, num \div den)

\* a rounding with a floor of 1 for every rate
RoundMonthlyRateAtLeastOne(num, den) ==
  Max(1, (2 * num + den) \div (2 * den))

\* round_monthly_rate of the rate num / den (den > 0):
\* 0 if rate <= 0, else max(1, int(rate + 0.5))
RoundMonthlyRate(num, den) ==
  IF num <= 0 THEN 0 ELSE Max(1, (2 * num + den) \div (2 * den))

\* _calculate_target: raised is true when amount / frequency_months divides
\* by zero (ZeroDivisionError), value is the returned target otherwise
CalculateTarget(amount, frequency_months, months_until_due, starting_balance) ==
  LET fn == frequency_months[1]
      fd == frequency_months[2]
      Returns(v) == [raised |-> FALSE, value |-> v]
  IN IF fn < fd
       THEN IF fn = 0
              THEN [raised |-> TRUE, value |-> 0]
              ELSE Returns(RoundMonthlyRate(
                     Max(0, amount * fd - starting_balance * fn), fn))
       ELSE IF fn = fd
         THEN Returns(RoundMonthlyRate(Max(0, amount - starting_balance), 1))
         ELSE LET shortfall == Max(0, amount - starting_balance)
                  months_remaining == Max(1, months_until_due)
              IN IF shortfall > 0
                   THEN Returns(RoundMonthlyRate(shortfall, months_remaining))
                   ELSE Returns(0)

\* state_manager.get_frozen_target: None before anything was stored
NoStored == [present |-> FALSE]

GetFrozenTarget(store, recurring_id) == store[recurring_id]

\* state_manager.set_frozen_target
SetFrozenTarget(store, recurring_id, frozen_target, target_month, balance_at_start, amount, frequency_months, rollover_amount, next_due_date) ==
  [store EXCEPT ![recurring_id] =
     [present |-> TRUE,
      frozen_monthly_target |-> frozen_target,
      target_month |-> target_month,
      balance_at_month_start |-> balance_at_start,
      frozen_amount |-> amount,
      frozen_frequency_months |-> frequency_months,
      frozen_rollover_amount |-> rollover_amount,
      frozen_next_due_date |-> next_due_date]]

\* a validity test that forgets the month
NeedsRecalcIgnoringMonth(stored_target, current_month, amount, frequency_months, rollover_amount, next_due_date) ==
  \/ ~stored_target.present
  \/ stored_target.frozen_amount # amount
  \/ stored_target.frozen_frequency_months # frequency_months
  \/ stored_target.frozen_rollover_amount # rollover_amount
  \/ stored_target.frozen_next_due_date # next_due_date

\* a validity test that compares the stored rollover with the amount
NeedsRecalcWrongField(stored_target, current_month, amount, frequency_months, rollover_amount, next_due_date) ==
  \/ ~stored_target.present
  \/ stored_target.target_month # current_month
  \/ stored_target.frozen_amount # amount
  \/ stored_target.frozen_frequency_months # frequency_months
  \/ stored_target.frozen_rollover_amount # amount
  \/ stored_target.frozen_next_due_date # next_due_date

\* needs_recalc
NeedsRecalc(stored_target, current_month, amount, frequency_months, rollover_amount, next_due_date) ==
  \/ ~stored_target.present
  \/ stored_target.target_month # current_month
  \/ stored_target.frozen_amount # amount
  \/ stored_target.frozen_frequency_months # frequency_months
  \/ stored_target.frozen_rollover_amount # rollover_amount
  \/ stored_target.frozen_next_due_date # next_due_date

\* monthly_progress_percent as <<numerator, denominator>>
MonthlyProgressPercent(contributed_this_month, frozen_target) ==
  IF frozen_target > 0
    THEN <<contributed_this_month * 100, frozen_target>>
    ELSE <<100, 1>>

CalculateFrozenTarget(recurring_id, amount, frequency_months, months_until_due, rollover_amount, budgeted_this_month, next_due_date, current_month) ==
  LET stored_target == GetFrozenTarget(frozenTargets, recurring_id)
      needs_recalc == NeedsRecalc(stored_target, current_month, amount,
                                  frequency_months, rollover_amount,
                                  next_due_date)
      computed == CalculateTarget(amount, frequency_months, months_until_due,
                                  rollover_amount)
      args == [recurring_id |-> recurring_id, amount |-> amount,
               frequency_months |-> frequency_months,
               months_until_due |-> months_until_due,
               rollover_amount |-> rollover_amount,
               budgeted_this_month |-> budgeted_this_month,
               next_due_date |-> next_due_date,
               current_month |-> current_month]
      frozen_target == IF needs_recalc THEN computed.value
                       ELSE stored_target.frozen_monthly_target
      \* stored_target.get("frozen_rollover_amount") or 0
      balance_at_start == IF needs_recalc THEN rollover_amount
                          ELSE stored_target.frozen_rollover_amount
      contributed == Max(0, budgeted_this_month)
  IN /\ frozenSeq' = 1 - frozenSeq
     /\ IF needs_recalc /\ computed.raised
          THEN /\ frozenRet' = [kind |-> "ZeroDivisionError", args |-> args]
               /\ UNCHANGED <<frozenTargets, lastCall>>
          ELSE /\ frozenTargets' =
                    IF needs_recalc
                      THEN SetFrozenTarget(frozenTargets, recurring_id,
                             frozen_target, current_month, rollover_amount,
                             amount, frequency_months, rollover_amount,
                             next_due_date)
                      ELSE frozenTargets
               /\ frozenRet' =
                    [kind |-> "ok", args |-> args,
                     frozen_target |-> frozen_target,
                     balance_at_start |-> balance_at_start,
                     contributed_this_month |-> contributed,
                     monthly_progress_percent |->
                       MonthlyProgressPercent(contributed, frozen_target),
                     was_recalculated |-> needs_recalc]
               /\ lastCall' = [lastCall EXCEPT ![recurring_id] =
                    [present |-> TRUE, current_month |-> current_month,
                     amount |-> amount, frequency_months |-> frequency_months,
                     rollover_amount |-> rollover_amount,
                     next_due_date |-> next_due_date,
                     frozen_target |-> frozen_target]]

FrozenInit ==
  /\ frozenTargets = [r \in RecurringIds |-> NoStored]
  /\ lastCall = [r \in RecurringIds |-> NoStored]
  /\ frozenSeq = 0
  /\ frozenRet = [kind |-> "none"]

\* a step of the calculator leaves the other subsystems alone
FrozenFrame ==
  UNCHANGED <<notesVars, lockVars, viewVars, refundsVars, savedViewVars,
              lockCallerVars,
              migVars, schedVars, checkboxVars, sessionVars>>

FrozenNext ==
  \E c \in FrozenCalls :
    /\ CalculateFrozenTarget(c.recurring_id, c.amount_rollover[1],
                             c.frequency_months, c.due_budget[1],
                             c.amount_rollover[2], c.due_budget[2],
                             c.next_due_date, c.current_month)
    /\ FrozenFrame

\* the stored target differs from the inputs of a call, as the claim lists it
StoredDiffers(st, a) ==
  \/ ~st.present
  \/ st.target_month # a.current_month
  \/ st.frozen_amount # a.amount
  \/ st.frozen_frequency_months # a.frequency_months
  \/ st.frozen_rollover_amount # a.rollover_amount
  \/ st.frozen_next_due_date # a.next_due_date

\* C3: a calculate_frozen_target call recomputes and persists the target
\* (was_recalculated = true) exactly when nothing is stored for the item or
\* the stored month, amount, frequency, rollover or due date differs from
\* the input; otherwise it returns the stored frozen_monthly_target and
\* leaves the state manager as it was.
C3_RecalcExactlyOnChange ==
  [][(frozenSeq' # frozenSeq /\ frozenRet'.kind = "ok") =>
       LET a == frozenRet'.args
           st == frozenTargets[a.recurring_id]
       IN IF StoredDiffers(st, a)
            THEN /\ frozenRet'.was_recalculated
                 /\ frozenTargets'[a.recurring_id].present
                 /\ frozenTargets'[a.recurring_id].frozen_monthly_target
                      = frozenRet'.frozen_target
                 /\ ~StoredDiffers(frozenTargets'[a.recurring_id], a)
            ELSE /\ ~frozenRet'.was_recalculated
                 /\ frozenRet'.frozen_target = st.frozen_monthly_target
                 /\ frozenTargets' = frozenTargets]_vars

\* C3 witness: a call has returned a stored target that the current
\* months_until_due would not have produced
C3_Witness ==
  /\ frozenRet.kind = "ok"
  /\ ~frozenRet.was_recalculated
  /\ frozenRet.frozen_target #
       CalculateTarget(frozenRet.args.amount, frozenRet.args.frequency_months,
                       frozenRet.args.months_until_due,
                       frozenRet.args.rollover_amount).value

\* C4: a call for an item whose previous call was made in the same month
\* with the same amount, frequency_months, rollover_amount and next_due_date
\* returns the frozen_target of that previous call and was_recalculated =
\* false, whatever months_until_due and budgeted_this_month are.
C4_StableWithinMonth ==
  [][(frozenSeq' # frozenSeq /\ frozenRet'.kind = "ok") =>
       LET a == frozenRet'.args
           prev == lastCall[a.recurring_id]
       IN (/\ prev.present
           /\ prev.current_month = a.current_month
           /\ prev.amount = a.amount
           /\ prev.frequency_months = a.frequency_months
           /\ prev.rollover_amount = a.rollover_amount
           /\ prev.next_due_date = a.next_due_date)
          => /\ frozenRet'.frozen_target = prev.frozen_target
             /\ ~frozenRet'.was_recalculated]_vars

\* C4 witness: the item's second call in a month, with another
\* months_until_due and another budget than the call that froze the target
C4_Witness ==
  /\ frozenRet.kind = "ok"
  /\ ~frozenRet.was_recalculated
  /\ frozenRet.args.recurring_id = "r1"
  /\ frozenRet.args.months_until_due = 0
  /\ frozenRet.args.budgeted_this_month = 40
  /\ frozenRet.args.frequency_months = <<12, 1>>
  /\ frozenRet.args.amount = 600
  /\ frozenRet.frozen_target = 60

\* the rate of a recomputation as <<numerator, denominator>> with a positive
\* denominator: amount / frequency_months - rollover below a month,
\* amount - rollover for a month, the shortfall over the months left above
ClaimedRate(a) ==
  LET fn == a.frequency_months[1]
      fd == a.frequency_months[2]
  IN IF fn < fd
       THEN <<a.amount * fd - a.rollover_amount * fn, fn>>
       ELSE IF fn = fd
         THEN <<a.amount - a.rollover_amount, 1>>
         ELSE <<Max(0, a.amount - a.rollover_amount),
                Max(1, a.months_until_due)>>

\* t is 0 for a rate <= 0 and max(1, floor(rate + 0.5)) for a rate > 0
IsRoundedRate(t, rate) ==
  LET num == rate[1]
      den == rate[2]
  IN IF num <= 0
       THEN t = 0
       ELSE \/ t = 1 /\ 2 * num + den < 4 * den
            \/ /\ t >= 2
               /\ 2 * den * t <= 2 * num + den
               /\ 2 * num + den < 2 * den * (t + 1)

\* a call of calculate_frozen_target has just returned a recomputed target
Recomputed ==
  /\ frozenSeq' # frozenSeq
  /\ frozenRet'.kind = "ok"
  /\ frozenRet'.was_recalculated

\* C24: whenever the target is recomputed, frozen_target is
\* round_monthly_rate(rate) with rate = amount / frequency_months - rollover
\* for frequency_months < 1, amount - rollover for frequency_months = 1 and
\* max(0, amount - rollover) / max(1, months_until_due) otherwise; the
\* rounding gives 0 for a rate <= 0 and max(1, floor(rate + 0.5)) above, so
\* the target is 0 exactly when the rate is not positive and >= 1 otherwise.
C24_TargetIsRoundedRate ==
  [][Recomputed =>
       LET rate == ClaimedRate(frozenRet'.args)
           t == frozenRet'.frozen_target
       IN /\ IsRoundedRate(t, rate)
          /\ (t = 0) <=> (rate[1] <= 0)
          /\ rate[1] > 0 => t >= 1
          /\ frozenTargets'[frozenRet'.args.recurring_id].frozen_monthly_target
               = t]_vars

\* C24 witness: a yearly item due this month (months_until_due = 0) was
\* recomputed to its whole shortfall, and the rate 2.5 was rounded up to 3
C24_Witness ==
  /\ frozenRet.kind = "ok"
  /\ frozenRet.was_recalculated
  /\ frozenRet.args.frequency_months = <<12, 1>>
  /\ frozenRet.args.amount = 25
  /\ frozenRet.args.months_until_due = 0
  /\ frozenRet.frozen_target = 25
  /\ lastCall["r1"].present
  /\ \E r \in RecurringIds :
       /\ frozenTargets[r].present
       /\ frozenTargets[r].frozen_amount = 25
       /\ frozenTargets[r].frozen_monthly_target = 25

\* C25 as stated: every recomputation with amount = 0 yields
\* frozen_target = 0, for every frequency_months, rollover_amount and
\* months_until_due.
C25_ZeroAmountZeroTarget ==
  [][(Recomputed /\ frozenRet'.args.amount = 0) =>
       frozenRet'.frozen_target = 0]_vars

\* C25 as amended: every recomputation with amount = 0 and
\* rollover_amount >= 0 yields frozen_target = 0, and one with amount = 0
\* and rollover_amount < 0 yields a target of at least 1.
C25_ZeroAmountNoDeficit ==
  [][(Recomputed /\ frozenRet'.args.amount = 0) =>
       IF frozenRet'.args.rollover_amount >= 0
         THEN frozenRet'.frozen_target = 0
         ELSE frozenRet'.frozen_target >= 1]_vars

\* C25 witness: an item with amount 0 and a rollover of 100 was recomputed
\* to 0
C25_Witness ==
  /\ frozenRet.kind = "ok"
  /\ frozenRet.was_recalculated
  /\ frozenRet.args.amount = 0
  /\ frozenRet.args.rollover_amount = 100
  /\ frozenRet.frozen_target = 0

\* C39: calculate_frozen_target never fails with a division by zero: for
\* every amount and rollover_amount, every frequency_months >= 0 and every
\* months_until_due >= 0 (0 included for both) the call returns a result.
C39_NoDivisionByZero ==
  (frozenRet.kind # "none"
   /\ frozenRet.args.frequency_months[1] >= 0
   /\ frozenRet.args.months_until_due >= 0)
    => /\ frozenRet.kind = "ok"
       /\ frozenRet.frozen_target >= 0

(***************************************************************************)
(* REFUNDS SERVICE: saved-view filter  (src/services/refunds_service.py)   *)
(***************************************************************************)
TagIds == {"A", "B"}
ViewCategoryIds == {"C1", "C2"}

\* the transactions _txn_matches_view is asked about: txn["tags"] as the set
\* of its tag ids, txn["category"]["id"] or None for a missing category
ViewTxns == [tags : SUBSET TagIds, category : ViewCategoryIds \cup {None}]
\* a view's tag_ids as a set
ViewTagSets == SUBSET TagIds
\* a view's category_ids: None (is_none) or a set
ViewCatSets ==
  {[is_none |-> TRUE, ids |-> {}]} \cup
  {[is_none |-> FALSE, ids |-> c] : c \in SUBSET ViewCategoryIds}

\* _txn_matches_view(txn, tag_set, cat_set), statement by statement
TxnMatchesView(txn, tag_set, cat_set) ==
  LET txn_tags == txn.tags
      tags_match == tag_set # {} /\ (tag_set \cap txn_tags) # {}
      cat_id == txn.category
      cats_match ==
        (~cat_set.is_none) /\ cat_id # None /\ cat_id \in cat_set.ids
  IN  IF ~tags_match /\ cat_set.is_none THEN FALSE
      ELSE IF ~tags_match /\ ~cats_match THEN FALSE
      ELSE ~((~cat_set.is_none) /\ ~cats_match)

\* one call of _txn_matches_view
TxnMatchesViewCall(txn, tag_set, cat_set) ==
  /\ viewCall' = [called |-> TRUE, txn |-> txn, tag_set |-> tag_set,
                  cat_set |-> cat_set,
                  ret |-> TxnMatchesView(txn, tag_set, cat_set)]

ViewInit ==
  viewCall = [called |-> FALSE, txn |-> [tags |-> {}, category |-> None],
              tag_set |-> {}, cat_set |-> [is_none |-> TRUE, ids |-> {}],
              ret |-> FALSE]

\* a call of the filter leaves the other subsystems alone
ViewFrame ==
  UNCHANGED <<notesVars, lockVars, frozenVars, refundsVars, savedViewVars,
              lockCallerVars,
              migVars, schedVars, checkboxVars, sessionVars>>

ViewNext ==
  \E txn \in ViewTxns, tag_set \in ViewTagSets, cat_set \in ViewCatSets :
    TxnMatchesViewCall(txn, tag_set, cat_set) /\ ViewFrame

\* C10: _txn_matches_view reports a match exactly when the transaction has
\* at least one tag in the view's tag_ids and the view's category_ids is
\* null or contains the transaction's category.
C10_MatchesExactlyWhen ==
  viewCall.called =>
    (viewCall.ret <=>
       /\ (viewCall.tag_set \cap viewCall.txn.tags) # {}
       /\ \/ viewCall.cat_set.is_none
          \/ viewCall.txn.category \in viewCall.cat_set.ids)

(***************************************************************************)
(* REFUNDS SERVICE: note blocks  (src/services/refunds_service.py)         *)
(*                                                                         *)
(* A notes string is a sequence of atoms: "-" one box-drawing dash, " " a  *)
(* space, "\n" a newline, the words "Refund Matched" and "Expected Refund", *)
(* "t" a run of other plain text and "&" a run of text holding an HTML     *)
(* entity.  The markers and the block end are the strings of the source,   *)
(* dash by dash, so that a marker can also come about by concatenation.    *)
(***************************************************************************)
NL == "\n"
DASH == "-"
MATCHED_MARKER == <<DASH, DASH, " ", "Refund Matched", " ", DASH, DASH>>
EXPECTED_MARKER == <<DASH, DASH, " ", "Expected Refund", " ", DASH, DASH>>
BLOCK_END == <<DASH, DASH, DASH, DASH, DASH, DASH, DASH, DASH, DASH, DASH>>
BlockMarkers == {MATCHED_MARKER, EXPECTED_MARKER}

\* html.unescape: an entity becomes plain text
DecodeHtml(text) ==
  [i \in 1..Len(text) |-> IF text[i] = "&" THEN "t" ELSE text[i]]

\* the string piece stands in text at position i
StandsAt(text, i, piece) ==
  /\ i >= 1
  /\ i + Len(piece) - 1 <= Len(text)
  /\ SubSeq(text, i, i + Len(piece) - 1) = piece

\* _BLOCK_PATTERN tried with its marker at position i: the marker, a
\* newline, then lazily up to the first block end, then an optional
\* newline.  The position of the last atom matched, 0 when it does not match.
BlockMatchEnd(text, i) ==
  LET markers == {mk \in BlockMarkers : StandsAt(text, i, mk \o <<NL>>)}
  IN IF markers = {} THEN 0
     ELSE LET mk == CHOOSE x \in markers : TRUE
              ends == {k \in (i + Len(mk) + 1)..Len(text) :
                         StandsAt(text, k, BLOCK_END)}
          IN  IF ends = {} THEN 0
              ELSE LET k == CHOOSE e \in ends : \A f \in ends : e <= f
                       last == k + Len(BLOCK_END) - 1
                   IN  IF last + 1 <= Len(text) /\ text[last + 1] = NL
                       THEN last + 1 ELSE last

\* _BLOCK_PATTERN tried at position i, its optional leading newline first
BlockMatchAt(text, i) ==
  IF text[i] = NL /\ BlockMatchEnd(text, i + 1) # 0
  THEN BlockMatchEnd(text, i + 1)
  ELSE BlockMatchEnd(text, i)

\* _BLOCK_PATTERN.search(text)
BlockPatternSearch(text) ==
  \E i \in 1..Len(text) : BlockMatchAt(text, i) # 0

\* _BLOCK_PATTERN.sub("", text) from position i on: matches are found left
\* to right and do not overlap
RECURSIVE BlockPatternSub(_, _)
BlockPatternSub(text, i) ==
  IF i > Len(text) THEN <<>>
  ELSE IF BlockMatchAt(text, i) # 0
       THEN BlockPatternSub(text, BlockMatchAt(text, i) + 1)
       ELSE <<text[i]>> \o BlockPatternSub(text, i + 1)

\* re.sub(r"\n{3,}", "\n\n", text): a newline that follows two newlines
\* belongs to a run of three or more and is dropped
CollapseBlankLines(text) ==
  SelectSeq([i \in 1..Len(text) |->
               IF i > 2 /\ text[i] = NL /\ text[i - 1] = NL
                        /\ text[i - 2] = NL
               THEN "drop" ELSE text[i]],
            LAMBDA x : x # "drop")

\* str.strip(): the whitespace at both ends is removed
RECURSIVE Strip(_)
Strip(text) ==
  IF text = <<>> THEN <<>>
  ELSE IF Head(text) \in {NL, " "} THEN Strip(Tail(text))
  ELSE IF text[Len(text)] \in {NL, " "}
       THEN Strip(SubSeq(text, 1, Len(text) - 1))
  ELSE text

\* _strip_refund_notes(notes)
StripRefundNotes(text) ==
  Strip(CollapseBlankLines(BlockPatternSub(text, 1)))

\* _prepare_original_notes(original_notes); None and "" are both <<>>
PrepareOriginalNotes(original_notes) ==
  IF original_notes = <<>> THEN <<>>
  ELSE StripRefundNotes(DecodeHtml(original_notes))

\* _build_refund_note(...): marker, the body on one line, block end
BuildRefundNote == MATCHED_MARKER \o <<NL, "t", NL>> \o BLOCK_END

\* _build_expected_refund_note(...): the body ends with expected_note on a
\* line of its own when one is given
BuildExpectedRefundNote(note_given) ==
  IF note_given
  THEN EXPECTED_MARKER \o <<NL, "t", NL, "t", NL>> \o BLOCK_END
  ELSE EXPECTED_MARKER \o <<NL, "t", NL>> \o BLOCK_END

\* f"{base_notes}\n\n{note_line}" if base_notes else note_line
NewNotes(base_notes, note_line) ==
  IF base_notes # <<>> THEN base_notes \o <<NL, NL>> \o note_line
  ELSE note_line

(***************************************************************************)
(* REFUNDS SERVICE: create_match and delete_match                          *)
(* (src/services/refunds_service.py)                                       *)
(*                                                                         *)
(* Each request runs create_match or delete_match and is suspended between *)
(* its database block and each of its upstream sections, where the other   *)
(* request may run.  The database block itself is two steps, the read and  *)
(* the write, so that two sessions can both read before either writes.     *)
(***************************************************************************)
Reqs == {"q1", "q2"}
RefundTxns == {"x1", "x2"}
REPLACEMENT_TAG == "R"

Range(f) == {f[i] : i \in DOMAIN f}

\* an optional list: None, or the list
NoList == [is_none |-> TRUE, ids |-> <<>>]
ListOf(ids) == [is_none |-> FALSE, ids |-> ids]
\* an optional transaction_data snapshot: None, a snapshot with the ids of
\* its "tags", or a snapshot that has no "tags" key
NoData == [is_none |-> TRUE, has_tags |-> FALSE, tags |-> <<>>]
DataOf(tags) == [is_none |-> FALSE, has_tags |-> TRUE, tags |-> tags]
DataWithoutTags == [is_none |-> FALSE, has_tags |-> FALSE, tags |-> <<>>]

\* the argument shapes of the create_match requests (amounts, merchant,
\* dates and accounts only feed the text of the note body)
CreateShapes ==
  { \* a concrete refund that replaces the view's tag
    [skipped |-> FALSE, expected_refund |-> FALSE,
     expected_amount_is_none |-> TRUE, refund_amount_is_none |-> FALSE,
     expected_note_given |-> FALSE, replace_tag |-> TRUE,
     original_tag_ids |-> ListOf(<<"A", "B">>),
     view_tag_ids |-> ListOf(<<"A">>),
     original_notes |-> <<"t">>, transaction_data |-> DataOf(<<"A", "B">>)],
    \* a concrete refund on notes that already hold a block
    [skipped |-> FALSE, expected_refund |-> FALSE,
     expected_amount_is_none |-> TRUE, refund_amount_is_none |-> FALSE,
     expected_note_given |-> FALSE, replace_tag |-> FALSE,
     original_tag_ids |-> NoList, view_tag_ids |-> NoList,
     original_notes |-> <<"&", NL, NL>> \o EXPECTED_MARKER
                         \o <<NL, "t", NL>> \o BLOCK_END,
     transaction_data |-> NoData],
    \* an expected refund
    [skipped |-> FALSE, expected_refund |-> TRUE,
     expected_amount_is_none |-> FALSE, refund_amount_is_none |-> TRUE,
     expected_note_given |-> TRUE, replace_tag |-> TRUE,
     original_tag_ids |-> ListOf(<<"A">>), view_tag_ids |-> NoList,
     original_notes |-> <<>>, transaction_data |-> DataOf(<<"A">>)],
    \* a skipped transaction
    [skipped |-> TRUE, expected_refund |-> FALSE,
     expected_amount_is_none |-> TRUE, refund_amount_is_none |-> TRUE,
     expected_note_given |-> FALSE, replace_tag |-> FALSE,
     original_tag_ids |-> NoList, view_tag_ids |-> NoList,
     original_notes |-> <<"t">>, transaction_data |-> NoData],
    \* a skipped transaction sent with the tag replacement switched on
    [skipped |-> TRUE, expected_refund |-> FALSE,
     expected_amount_is_none |-> TRUE, refund_amount_is_none |-> FALSE,
     expected_note_given |-> FALSE, replace_tag |-> TRUE,
     original_tag_ids |-> ListOf(<<"A">>), view_tag_ids |-> NoList,
     original_notes |-> <<"t">>, transaction_data |-> DataOf(<<"A">>)] }

CreateArgs ==
  {[original_transaction_id |-> t, shape |-> sh] :
     t \in RefundTxns, sh \in CreateShapes}
NoArgs ==
  [original_transaction_id |-> None,
   shape |-> CHOOSE sh \in CreateShapes : sh.skipped /\ ~sh.replace_tag]

\* what an upstream section can meet: every call succeeds, get_mm raises,
\* or the call on the transaction raises (and has changed nothing)
UpstreamOutcomes == {"ok", "get_mm_fails", "call_fails"}

\* get_pending_count has returned nothing (yet): its count and viewCounts,
\* and the transactions it counted per view (history)
NoPending ==
  [returned |-> FALSE, count |-> 0, viewCounts |-> <<>>, counted |-> <<>>]

\* a request that runs nothing
IdleReq ==
  [pc |-> "idle", op |-> "none", args |-> NoArgs, match_id |-> 0,
   original_transaction_id |-> None, original_tag_ids |-> NoList,
   should_strip_notes |-> FALSE, current_notes |-> <<>>,
   is_expected |-> FALSE, transaction_data |-> NoData,
   snapshot_is_current |-> FALSE,
   committed |-> FALSE, called_upstream |-> FALSE, upstream_writes |-> 0,
   upstream_failures |-> 0, result |-> "none",
   view_filters |-> {}, matched_ids |-> {}, seen_match_id |-> 0,
   pending |-> NoPending]

\* TrackerRepository.get_refunds_match_by_original
GetRefundsMatchByOriginal(rows, original_transaction_id) ==
  {m \in rows : m.original_transaction_id = original_transaction_id}

\* a table without the unique constraint
UniqueViolationNever(rows, original_transaction_id) == FALSE

\* refunds_matches.original_transaction_id is unique=True: an insert of a
\* second row for the transaction raises IntegrityError
UniqueViolation(rows, original_transaction_id) ==
  \E m \in rows : m.original_transaction_id = original_transaction_id

\* TrackerRepository.create_refunds_match: the columns the service reads
\* back (the refund_* and expected_* columns are only returned by
\* get_matches)
CreateRefundsMatch(rows, id, a) ==
  rows \cup {[id |-> id,
              original_transaction_id |-> a.original_transaction_id,
              skipped |-> a.shape.skipped,
              expected_refund |-> a.shape.expected_refund,
              transaction_data |-> a.shape.transaction_data]}

\* the frame of a step that touches neither the table nor Monarch
ReqOnly ==
  UNCHANGED <<refundsMatches, upstreamNotes, upstreamTags, replacementTagId,
              nextMatchId>>

\* bookkeeping of one upstream section of request r: whether it called
\* upstream at all, whether it issued its writing call, whether it failed
AfterUpstream(r, outcome) ==
  [r EXCEPT !.called_upstream = TRUE,
            !.upstream_writes =
              IF outcome = "get_mm_fails" THEN @ ELSE @ + 1,
            !.upstream_failures = IF outcome = "ok" THEN @ ELSE @ + 1]

\* an except clause that also takes the local row back
AfterUpstreamFailureRollback(rows, original_transaction_id) ==
  {m \in rows : m.original_transaction_id # original_transaction_id}

\* except Exception: logger.exception(...) -- the failure is logged and
\* the table is left as it is
AfterUpstreamFailure(rows, original_transaction_id) == rows

\* the table after an upstream section of a request on transaction t
RowsAfterUpstream(outcome, t) ==
  IF outcome = "ok" THEN refundsMatches
  ELSE AfterUpstreamFailure(refundsMatches, t)

\* create_match, lines 303-309: the request starts, opens its session and
\* looks for an existing match
CreateMatchCheck(q, a) ==
  /\ req[q].pc \in {"idle", "done"}
  /\ refundsCalls < MaxRefundCalls
  /\ refundsCalls' = refundsCalls + 1
  /\ LET existing ==
           GetRefundsMatchByOriginal(refundsMatches,
                                     a.original_transaction_id)
         r == [IdleReq EXCEPT !.op = "create_match", !.args = a,
                 !.original_transaction_id = a.original_transaction_id,
                 \* history: the snapshot sent holds the tags the
                 \* transaction has at Monarch when the request starts
                 !.snapshot_is_current =
                   a.shape.transaction_data =
                     DataOf(upstreamTags[a.original_transaction_id])]
     IN  req' = [req EXCEPT ![q] =
                   IF existing # {}
                   THEN [r EXCEPT !.pc = "done",
                                  !.result = "already_matched"]
                   ELSE [r EXCEPT !.pc = "create_insert"]]
  /\ ReqOnly

\* create_match, lines 311-326: the insert and the commit at the end of the
\* with block; IntegrityError leaves the function
CreateMatchInsert(q) ==
  /\ req[q].pc = "create_insert"
  /\ IF UniqueViolation(refundsMatches, req[q].original_transaction_id)
     THEN /\ req' = [req EXCEPT ![q].pc = "done", ![q].result = "raised"]
          /\ UNCHANGED <<refundsMatches, nextMatchId>>
     ELSE /\ refundsMatches' =
               CreateRefundsMatch(refundsMatches, nextMatchId, req[q].args)
          /\ nextMatchId' = nextMatchId + 1
          /\ req' = [req EXCEPT ![q].pc = "create_notes",
                                ![q].match_id = nextMatchId,
                                ![q].committed = TRUE]
  /\ UNCHANGED <<upstreamNotes, upstreamTags, replacementTagId, refundsCalls>>

\* create_match, lines 328-354: the notes of an expected refund, else the
\* notes of a concrete refund
CreateMatchNotes(q, outcome) ==
  /\ req[q].pc = "create_notes"
  /\ LET sh == req[q].args.shape
         t == req[q].original_transaction_id
         expected_branch ==
           sh.expected_refund /\ ~sh.expected_amount_is_none
         matched_branch ==
           /\ ~expected_branch
           /\ ~sh.skipped /\ ~sh.expected_refund
           /\ ~sh.refund_amount_is_none
         note_line ==
           IF expected_branch
           THEN BuildExpectedRefundNote(sh.expected_note_given)
           ELSE BuildRefundNote
         new_notes ==
           NewNotes(PrepareOriginalNotes(sh.original_notes), note_line)
     IN  IF expected_branch \/ matched_branch
         THEN /\ upstreamNotes' =
                   IF outcome = "ok"
                   THEN [upstreamNotes EXCEPT ![t] = new_notes]
                   ELSE upstreamNotes
              /\ refundsMatches' = RowsAfterUpstream(outcome, t)
              /\ req' = [req EXCEPT ![q] =
                           [AfterUpstream(req[q], outcome)
                              EXCEPT !.pc = "create_tags"]]
         ELSE /\ outcome = "ok"
              /\ req' = [req EXCEPT ![q].pc = "create_tags"]
              /\ UNCHANGED <<upstreamNotes, refundsMatches>>
  /\ UNCHANGED <<upstreamTags, replacementTagId, refundsCalls, nextMatchId>>

\* create_match, lines 361-370: the tag list sent upstream
ReplacedTagIds(original_tag_ids, view_tag_ids, replacement_tag_id) ==
  LET tags_to_remove ==
        IF (~view_tag_ids.is_none) /\ view_tag_ids.ids # <<>>
        THEN Range(view_tag_ids.ids) ELSE Range(original_tag_ids.ids)
      new_tag_ids ==
        SelectSeq(original_tag_ids.ids, LAMBDA tid : tid \notin tags_to_remove)
  IN  IF replacement_tag_id # None
         /\ replacement_tag_id \notin Range(new_tag_ids)
      THEN Append(new_tag_ids, replacement_tag_id)
      ELSE new_tag_ids

\* create_match, lines 356-376: the tag replacement, then the return
CreateMatchTags(q, outcome) ==
  /\ req[q].pc = "create_tags"
  /\ LET sh == req[q].args.shape
         t == req[q].original_transaction_id
     IN  IF sh.replace_tag /\ ~sh.expected_refund
            /\ ~sh.original_tag_ids.is_none
         THEN /\ upstreamTags' =
                   IF outcome = "ok"
                   THEN [upstreamTags EXCEPT ![t] =
                           ReplacedTagIds(sh.original_tag_ids,
                                          sh.view_tag_ids, replacementTagId)]
                   ELSE upstreamTags
              /\ refundsMatches' = RowsAfterUpstream(outcome, t)
              /\ req' = [req EXCEPT ![q] =
                           [AfterUpstream(req[q], outcome)
                              EXCEPT !.pc = "done", !.result = "success"]]
         ELSE /\ outcome = "ok"
              /\ req' = [req EXCEPT ![q].pc = "done",
                                    ![q].result = "success"]
              /\ UNCHANGED <<upstreamTags, refundsMatches>>
  /\ UNCHANGED <<upstreamNotes, replacementTagId, refundsCalls, nextMatchId>>

\* a restore that reads no tag out of the snapshot
SnapshotTagIdsNone(snapshot) == <<>>

\* delete_match, lines 394-396: snapshot.get("tags", []) and the ids of
\* its entries
SnapshotTagIds(snapshot) ==
  IF snapshot.has_tags THEN snapshot.tags ELSE <<>>

\* delete_match, lines 380-402: the request starts, opens its session,
\* looks the match up and takes what it needs from the row
DeleteMatchFind(q, match_id) ==
  /\ req[q].pc \in {"idle", "done"}
  /\ refundsCalls < MaxRefundCalls
  /\ refundsCalls' = refundsCalls + 1
  /\ LET found == {m \in refundsMatches : m.id = match_id}
         r == [IdleReq EXCEPT !.op = "delete_match", !.match_id = match_id]
     IN  req' = [req EXCEPT ![q] =
           IF found = {}
           THEN [r EXCEPT !.pc = "done", !.result = "not_found"]
           ELSE LET match == CHOOSE m \in found : TRUE
                IN  [r EXCEPT
                       !.pc = "delete_row",
                       !.original_transaction_id =
                         match.original_transaction_id,
                       !.is_expected = match.expected_refund,
                       !.transaction_data = match.transaction_data,
                       !.original_tag_ids =
                         IF (~match.expected_refund)
                            /\ ~match.transaction_data.is_none
                         THEN ListOf(SnapshotTagIds(match.transaction_data))
                         ELSE NoList,
                       !.should_strip_notes = ~match.skipped]]
  /\ ReqOnly

\* delete_match, lines 404-407: delete_refunds_match and the commit at the
\* end of the with block; a row that is gone gives deleted = False
DeleteMatchRow(q) ==
  /\ req[q].pc = "delete_row"
  /\ LET deleted == \E m \in refundsMatches : m.id = req[q].match_id
     IN  /\ refundsMatches' =
               {m \in refundsMatches : m.id # req[q].match_id}
         /\ req' = [req EXCEPT ![q] =
               IF deleted
               THEN [req[q] EXCEPT !.pc = "delete_get_mm",
                                   !.committed = TRUE]
               ELSE [req[q] EXCEPT !.pc = "done",
                                   !.result = "not_deleted"]]
  /\ UNCHANGED <<upstreamNotes, upstreamTags, replacementTagId, refundsCalls,
                 nextMatchId>>

\* delete_match, line 409: mm = await get_mm(), outside every try block
DeleteMatchGetMm(q, outcome) ==
  /\ req[q].pc = "delete_get_mm"
  /\ outcome \in {"ok", "get_mm_fails"}
  /\ refundsMatches' =
       RowsAfterUpstream(outcome, req[q].original_transaction_id)
  /\ req' = [req EXCEPT ![q] =
       IF outcome = "ok"
       THEN [req[q] EXCEPT !.pc = "delete_read_notes",
                           !.called_upstream = TRUE]
       ELSE [req[q] EXCEPT !.pc = "done", !.result = "raised",
                           !.called_upstream = TRUE,
                           !.upstream_failures = @ + 1]]
  /\ UNCHANGED <<upstreamNotes, upstreamTags, replacementTagId, refundsCalls,
                 nextMatchId>>

\* delete_match, lines 412-415: get_transaction_notes and the search for a
\* block
DeleteMatchReadNotes(q, outcome) ==
  /\ req[q].pc = "delete_read_notes"
  /\ outcome \in {"ok", "call_fails"}
  /\ LET t == req[q].original_transaction_id
         current_notes == upstreamNotes[t]
     IN  IF req[q].should_strip_notes
         THEN /\ refundsMatches' = RowsAfterUpstream(outcome, t)
              /\ req' = [req EXCEPT ![q] =
                   IF outcome = "ok"
                   THEN [req[q] EXCEPT
                           !.current_notes = current_notes,
                           !.pc = IF current_notes # <<>>
                                     /\ BlockPatternSearch(current_notes)
                                  THEN "delete_write_notes"
                                  ELSE "delete_tags"]
                   ELSE [req[q] EXCEPT !.pc = "delete_tags",
                                       !.upstream_failures = @ + 1]]
         ELSE /\ outcome = "ok"
              /\ req' = [req EXCEPT ![q].pc = "delete_tags"]
              /\ UNCHANGED refundsMatches
  /\ UNCHANGED <<upstreamNotes, upstreamTags, replacementTagId, refundsCalls,
                 nextMatchId>>

\* delete_match, lines 416-419: the notes without their blocks are written
DeleteMatchWriteNotes(q, outcome) ==
  /\ req[q].pc = "delete_write_notes"
  /\ outcome \in {"ok", "call_fails"}
  /\ LET t == req[q].original_transaction_id
         cleaned == StripRefundNotes(DecodeHtml(req[q].current_notes))
     IN  /\ upstreamNotes' =
               IF outcome = "ok" THEN [upstreamNotes EXCEPT ![t] = cleaned]
               ELSE upstreamNotes
         /\ refundsMatches' = RowsAfterUpstream(outcome, t)
         /\ req' = [req EXCEPT ![q] =
               [AfterUpstream(req[q], outcome) EXCEPT !.pc = "delete_tags"]]
  /\ UNCHANGED <<upstreamTags, replacementTagId, refundsCalls, nextMatchId>>

\* delete_match, lines 421-428: the tags of the snapshot are written back,
\* then the return
DeleteMatchTags(q, outcome) ==
  /\ req[q].pc = "delete_tags"
  /\ outcome \in {"ok", "call_fails"}
  /\ LET t == req[q].original_transaction_id
     IN  IF ~req[q].original_tag_ids.is_none
         THEN /\ upstreamTags' =
                   IF outcome = "ok"
                   THEN [upstreamTags EXCEPT
                           ![t] = req[q].original_tag_ids.ids]
                   ELSE upstreamTags
              /\ refundsMatches' = RowsAfterUpstream(outcome, t)
              /\ req' = [req EXCEPT ![q] =
                   [AfterUpstream(req[q], outcome)
                      EXCEPT !.pc = "done", !.result = "success"]]
         ELSE /\ outcome = "ok"
              /\ req' = [req EXCEPT ![q].pc = "done",
                                    ![q].result = "success"]
              /\ UNCHANGED <<upstreamTags, refundsMatches>>
  /\ UNCHANGED <<upstreamNotes, replacementTagId, refundsCalls, nextMatchId>>

\* update_config({"replacementTagId": tag}), lines 50-69: one database
\* block without suspension
UpdateConfig(tag) ==
  /\ refundsCalls < MaxRefundCalls
  /\ refundsCalls' = refundsCalls + 1
  /\ replacementTagId' = tag
  /\ UNCHANGED <<refundsMatches, upstreamNotes, upstreamTags, req,
                 nextMatchId>>

\* the tags and notes the transactions have at Monarch before any request
InitialTags == <<"A", "B">>
InitialNotes == <<"t">>

\* the transactions at Monarch: those the requests are about, and two
\* more that no request names
UpstreamTxns == RefundTxns \cup {"x3", "x4"}
UpstreamInitialTags(t) ==
  IF t = "x3" THEN <<"B">> ELSE IF t = "x4" THEN <<"A">> ELSE InitialTags
\* txn["amount"] and txn["category"]["id"] of each of them
TxnAmount == [t \in UpstreamTxns |->
               IF t = "x1" THEN -10 ELSE IF t = "x2" THEN -5
               ELSE IF t = "x3" THEN -1 ELSE 2]
TxnCategory == [t \in UpstreamTxns |->
                 IF t \in {"x1", "x3"} THEN "C1"
                 ELSE IF t = "x2" THEN "C2" ELSE None]

RefundsInit ==
  /\ refundsMatches = {}
  /\ upstreamNotes = [t \in UpstreamTxns |-> InitialNotes]
  /\ upstreamTags = [t \in UpstreamTxns |-> UpstreamInitialTags(t)]
  /\ replacementTagId = None
  /\ req = [q \in Reqs |-> IdleReq]
  /\ refundsCalls = 0
  /\ nextMatchId = 1

\* a step of the refunds service leaves the other subsystems alone
RefundsFrame ==
  UNCHANGED <<notesVars, lockVars, frozenVars, viewVars, savedViewVars,
              lockCallerVars,
              migVars, schedVars, checkboxVars, sessionVars>>

RefundsNext ==
  \/ \E tag \in {None, REPLACEMENT_TAG} : UpdateConfig(tag) /\ RefundsFrame
  \/ \E q \in Reqs, a \in CreateArgs : CreateMatchCheck(q, a) /\ RefundsFrame
  \/ \E q \in Reqs : CreateMatchInsert(q) /\ RefundsFrame
  \/ \E q \in Reqs, o \in UpstreamOutcomes :
        CreateMatchNotes(q, o) /\ RefundsFrame
  \/ \E q \in Reqs, o \in UpstreamOutcomes :
        CreateMatchTags(q, o) /\ RefundsFrame
  \/ \E q \in Reqs, id \in 1..MaxRefundCalls :
        DeleteMatchFind(q, id) /\ RefundsFrame
  \/ \E q \in Reqs : DeleteMatchRow(q) /\ RefundsFrame
  \/ \E q \in Reqs, o \in UpstreamOutcomes :
        DeleteMatchGetMm(q, o) /\ RefundsFrame
  \/ \E q \in Reqs, o \in UpstreamOutcomes :
        DeleteMatchReadNotes(q, o) /\ RefundsFrame
  \/ \E q \in Reqs, o \in UpstreamOutcomes :
        DeleteMatchWriteNotes(q, o) /\ RefundsFrame
  \/ \E q \in Reqs, o \in UpstreamOutcomes :
        DeleteMatchTags(q, o) /\ RefundsFrame

(***************************************************************************)
(* REFUNDS SERVICE: create_match and delete_match, one request at a time   *)
(*                                                                         *)
(* The same steps, with a request starting only when no other one runs:    *)
(* q1 sends the create_match requests and q2 the delete_match requests, on *)
(* one transaction and with more kinds of notes, tag lists and snapshots.  *)
(***************************************************************************)
\* notes that hold a matched and an expected block after a line of text
TwoBlockNotes ==
  <<"t", NL, NL>> \o MATCHED_MARKER \o <<NL, "t", NL>> \o BLOCK_END
    \o <<NL, NL>> \o EXPECTED_MARKER \o <<NL, "t", NL>> \o BLOCK_END
\* notes whose first line is an expected marker short of its last dash,
\* followed by a matched block, a line of one dash, text and a block end
JoiningNotes ==
  SubSeq(EXPECTED_MARKER, 1, Len(EXPECTED_MARKER) - 1) \o <<NL>>
    \o MATCHED_MARKER \o <<NL, "t", NL>> \o BLOCK_END
    \o <<NL, DASH, NL, "t", NL>> \o BLOCK_END
\* notes that end with a matched marker short of its last dash
PartialMarkerNotes ==
  <<"t", NL>> \o SubSeq(MATCHED_MARKER, 1, Len(MATCHED_MARKER) - 1)

\* the arguments of a create_match for a concrete refund: refund_amount is
\* given, skipped and expected_refund are false
ConcreteRefund(replace_tag, original_tag_ids, view_tag_ids, original_notes, transaction_data) ==
  [skipped |-> FALSE, expected_refund |-> FALSE,
   expected_amount_is_none |-> TRUE, refund_amount_is_none |-> FALSE,
   expected_note_given |-> FALSE, replace_tag |-> replace_tag,
   original_tag_ids |-> original_tag_ids, view_tag_ids |-> view_tag_ids,
   original_notes |-> original_notes, transaction_data |-> transaction_data]

SerialShapes ==
  CreateShapes \cup
  { \* no view tags sent: every original tag goes
    ConcreteRefund(TRUE, ListOf(<<"A", "B">>), NoList, JoiningNotes,
                   DataOf(<<"A", "B">>)),
    \* the view has no tags (a view of categories only)
    ConcreteRefund(TRUE, ListOf(<<"A", "B">>), ListOf(<<>>), <<"t">>,
                   DataOf(<<"A", "B">>)),
    \* the replacement tag is among the original tags already
    ConcreteRefund(TRUE, ListOf(<<"A", REPLACEMENT_TAG>>), ListOf(<<"A">>),
                   PartialMarkerNotes, DataOf(<<"A", REPLACEMENT_TAG>>)),
    \* no tag replacement, a snapshot without a "tags" key
    ConcreteRefund(FALSE, NoList, NoList, TwoBlockNotes, DataWithoutTags),
    \* tag replacement on notes that end with a partial marker
    ConcreteRefund(TRUE, ListOf(<<"A", "B">>), ListOf(<<"A">>),
                   PartialMarkerNotes, DataOf(<<"A", "B">>)) }

SerialCreateArgs ==
  {[original_transaction_id |-> "x1", shape |-> sh] : sh \in SerialShapes}

\* no request is between its steps
NoRequestRuns == \A q \in Reqs : req[q].pc \in {"idle", "done"}

RefundsSerialNext ==
  \/ \E tag \in {None, REPLACEMENT_TAG} :
        NoRequestRuns /\ UpdateConfig(tag) /\ RefundsFrame
  \/ \E a \in SerialCreateArgs :
        NoRequestRuns /\ CreateMatchCheck("q1", a) /\ RefundsFrame
  \/ CreateMatchInsert("q1") /\ RefundsFrame
  \/ \E o \in UpstreamOutcomes : CreateMatchNotes("q1", o) /\ RefundsFrame
  \/ \E o \in UpstreamOutcomes : CreateMatchTags("q1", o) /\ RefundsFrame
  \/ \E id \in 1..MaxRefundCalls :
        NoRequestRuns /\ DeleteMatchFind("q2", id) /\ RefundsFrame
  \/ DeleteMatchRow("q2") /\ RefundsFrame
  \/ \E o \in UpstreamOutcomes : DeleteMatchGetMm("q2", o) /\ RefundsFrame
  \/ \E o \in UpstreamOutcomes :
        DeleteMatchReadNotes("q2", o) /\ RefundsFrame
  \/ \E o \in UpstreamOutcomes :
        DeleteMatchWriteNotes("q2", o) /\ RefundsFrame
  \/ \E o \in UpstreamOutcomes : DeleteMatchTags("q2", o) /\ RefundsFrame

(***************************************************************************)
(* REFUNDS SERVICE: saved views and get_pending_count                      *)
(***************************************************************************)
SavedViewsInit ==
  /\ savedViews = {}
  /\ nextViewId = 1

\* the requests POST /views is sent with: tagIds, and categoryIds (absent,
\* empty or one category); the name is always a valid one
ViewTagLists == {<<>>, <<"A">>, <<"B">>}
ViewCategoryLists == {NoList, ListOf(<<>>), ListOf(<<"C1">>)}

\* json.dumps(category_ids) if category_ids else None, read back by
\* json.loads(v.category_ids) if v.category_ids else None
StoredCategoryIds(category_ids) ==
  IF (~category_ids.is_none) /\ category_ids.ids # <<>>
  THEN category_ids ELSE NoList

\* POST /views: the handler's validation, RefundsService.create_view and
\* TrackerRepository.create_refunds_view
CreateView(tag_ids, category_ids) ==
  LET has_tags == Len(tag_ids) > 0
      has_categories ==
        (~category_ids.is_none) /\ Len(category_ids.ids) > 0
  IN  /\ Cardinality(savedViews) < MaxViews
      /\ refundsCalls < MaxRefundCalls
      /\ refundsCalls' = refundsCalls + 1
      /\ IF ~has_tags /\ ~has_categories
         THEN UNCHANGED <<savedViews, nextViewId>>
         ELSE /\ savedViews' = savedViews \cup
                   {[id |-> nextViewId, tag_ids |-> tag_ids,
                     category_ids |-> StoredCategoryIds(category_ids)]}
              /\ nextViewId' = nextViewId + 1
      /\ UNCHANGED <<refundsMatches, upstreamNotes, upstreamTags,
                     replacementTagId, req, nextMatchId>>

\* the bodies PATCH /views/<view_id> is sent with: tagIds and categoryIds,
\* each present or absent
ViewUpdates ==
  {[has_tag_ids |-> FALSE, tag_ids |-> <<>>,
    has_category_ids |-> FALSE, category_ids |-> NoList]}
  \cup {[has_tag_ids |-> TRUE, tag_ids |-> t,
         has_category_ids |-> FALSE, category_ids |-> NoList] :
          t \in ViewTagLists \cup {<<"A", "B">>}}
  \cup {[has_tag_ids |-> FALSE, tag_ids |-> <<>>,
         has_category_ids |-> TRUE, category_ids |-> c] :
          c \in ViewCategoryLists}

\* RefundsService.update_view: the columns named in the body are written,
\* tagIds as sent and categoryIds as json.dumps(cat_ids) if cat_ids else None
UpdatedView(view, updates) ==
  [view EXCEPT
     !.tag_ids = IF updates.has_tag_ids THEN updates.tag_ids ELSE @,
     !.category_ids = IF updates.has_category_ids
                      THEN StoredCategoryIds(updates.category_ids) ELSE @]

\* PATCH /views/<view_id>: the handler, RefundsService.update_view and
\* TrackerRepository.update_refunds_view; an unknown id changes nothing
UpdateView(view_id, updates) ==
  /\ refundsCalls < MaxRefundCalls
  /\ refundsCalls' = refundsCalls + 1
  /\ savedViews' =
       {IF v.id = view_id THEN UpdatedView(v, updates) ELSE v :
          v \in savedViews}
  /\ UNCHANGED <<nextViewId, refundsMatches, upstreamNotes, upstreamTags,
                 replacementTagId, req, nextMatchId>>

\* DELETE /views/<view_id>: RefundsService.delete_view and
\* TrackerRepository.delete_refunds_view
DeleteView(view_id) ==
  /\ refundsCalls < MaxRefundCalls
  /\ refundsCalls' = refundsCalls + 1
  /\ savedViews' = {v \in savedViews : v.id # view_id}
  /\ UNCHANGED <<nextViewId, refundsMatches, upstreamNotes, upstreamTags,
                 replacementTagId, req, nextMatchId>>

\* the requests on saved views
SavedViewsNext ==
  \/ \E view_id \in 1..(MaxViews + 1) :
        /\ DeleteView(view_id)
        /\ UNCHANGED <<notesVars, lockVars, frozenVars, viewVars,
                       lockCallerVars, migVars, schedVars, checkboxVars, sessionVars>>
  \/ \E tag_ids \in ViewTagLists, category_ids \in ViewCategoryLists :
        /\ CreateView(tag_ids, category_ids)
        /\ UNCHANGED <<notesVars, lockVars, frozenVars, viewVars,
                       lockCallerVars, migVars, schedVars, checkboxVars, sessionVars>>
  \/ \E view_id \in 1..(MaxViews + 1), updates \in ViewUpdates :
        /\ UpdateView(view_id, updates)
        /\ UNCHANGED <<notesVars, lockVars, frozenVars, viewVars,
                       lockCallerVars, migVars, schedVars, checkboxVars, sessionVars>>

\* C36: after any sequence of create-view and update-view requests every
\* stored saved view has a non-empty tag_ids list or a non-empty
\* category_ids list.
C36_ViewHasTagOrCategory ==
  \A v \in savedViews :
    \/ v.tag_ids # <<>>
    \/ (~v.category_ids.is_none /\ v.category_ids.ids # <<>>)

\* _parse_view_filters(views): (view_id, tag_ids, category_ids) per view
ParseViewFilters(views) ==
  {[id |-> v.id, tag_ids |-> v.tag_ids, cat_ids |-> v.category_ids] :
     v \in views}

\* tag_set = set(tag_ids); cat_set = set(cat_ids) if cat_ids else None
TagSetOf(f) == Range(f.tag_ids)
CatSetOf(f) ==
  IF (~f.cat_ids.is_none) /\ f.cat_ids.ids # <<>>
  THEN [is_none |-> FALSE, ids |-> Range(f.cat_ids.ids)]
  ELSE [is_none |-> TRUE, ids |-> {}]

\* the transaction dict of t as Monarch returns it
TxnDict(t) == [tags |-> Range(upstreamTags[t]), category |-> TxnCategory[t]]

\* get_transactions_with_icons(mm, tag_ids=...): the transactions that
\* carry at least one of the tags
GetTransactionsByTags(tag_ids) ==
  {t \in UpstreamTxns : Range(upstreamTags[t]) \cap tag_ids # {}}

\* a filter that keeps the matched transactions
UnmatchedExpensesKeepMatched(transactions, matched_ids) ==
  {t \in transactions : TxnAmount[t] < 0}

\* get_pending_count, lines 107-110: expenses without a match
UnmatchedExpenses(transactions, matched_ids) ==
  {t \in transactions : TxnAmount[t] < 0 /\ t \notin matched_ids}

\* the transactions _compute_view_counts counts for one view
CountedFor(f, unmatched_expenses) ==
  {t \in unmatched_expenses :
     TxnMatchesView(TxnDict(t), TagSetOf(f), CatSetOf(f))}

\* _compute_view_counts(view_filters, unmatched_expenses)
ComputeViewCounts(view_filters, unmatched_expenses) ==
  LET ids == {f.id : f \in view_filters}
      filterOf(id) == CHOOSE f \in view_filters : f.id = id
      counted == [id \in ids |-> CountedFor(filterOf(id), unmatched_expenses)]
  IN  [returned |-> TRUE,
       count |-> Cardinality(UNION {counted[id] : id \in ids}),
       viewCounts |-> [id \in ids |-> Cardinality(counted[id])],
       counted |-> counted]

\* return {"count": 0, "viewCounts": {}}
EmptyCounts ==
  [returned |-> TRUE, count |-> 0, viewCounts |-> <<>>, counted |-> <<>>]

\* get_pending_count, lines 79-96: the request starts and reads the views
\* and the matched ids in one session
PendingCountRead(q) ==
  /\ req[q].pc \in {"idle", "done"}
  /\ refundsCalls < MaxRefundCalls
  /\ refundsCalls' = refundsCalls + 1
  /\ LET views == savedViews
         view_filters == ParseViewFilters(views)
         all_tag_ids == UNION {Range(f.tag_ids) : f \in view_filters}
         matched_ids == {m.original_transaction_id : m \in refundsMatches}
         r == [IdleReq EXCEPT !.op = "get_pending_count",
                              !.seen_match_id = nextMatchId]
     IN  req' = [req EXCEPT ![q] =
           IF views = {} \/ all_tag_ids = {}
           THEN [r EXCEPT !.pc = "done", !.result = "success",
                          !.view_filters = view_filters,
                          !.pending = EmptyCounts]
           ELSE [r EXCEPT !.pc = "pending_fetch",
                          !.view_filters = view_filters,
                          !.matched_ids = matched_ids]]
  /\ ReqOnly
  /\ UNCHANGED savedViewVars

\* get_pending_count, lines 103-112: get_mm and the one upstream fetch,
\* both outside any try block, then the counting
PendingCountFetch(q, outcome) ==
  /\ req[q].pc = "pending_fetch"
  /\ LET all_tag_ids == UNION {Range(f.tag_ids) : f \in req[q].view_filters}
         transactions == GetTransactionsByTags(all_tag_ids)
         unmatched_expenses ==
           UnmatchedExpenses(transactions, req[q].matched_ids)
     IN  req' = [req EXCEPT ![q] =
           IF outcome = "ok"
           THEN [req[q] EXCEPT
                   !.pc = "done", !.result = "success",
                   !.called_upstream = TRUE,
                   !.pending = ComputeViewCounts(req[q].view_filters,
                                                 unmatched_expenses)]
           ELSE [req[q] EXCEPT !.pc = "done", !.result = "raised",
                               !.called_upstream = TRUE,
                               !.upstream_failures = @ + 1]]
  /\ ReqOnly
  /\ UNCHANGED <<refundsCalls, savedViewVars>>

\* the argument shapes of create_match used next to get_pending_count: the
\* concrete refund that replaces the view's tag, and the skipped transaction
PendingCreateArgs ==
  {a \in CreateArgs :
     /\ a.shape.original_notes = <<"t">>
     /\ a.shape.refund_amount_is_none = a.shape.skipped}

\* a step on the saved views or of get_pending_count leaves the other
\* subsystems alone
PendingFrame ==
  UNCHANGED <<notesVars, lockVars, frozenVars, viewVars, lockCallerVars,
              migVars, schedVars, checkboxVars, sessionVars>>

PendingNext ==
  \/ \E tag_ids \in ViewTagLists, category_ids \in ViewCategoryLists :
        CreateView(tag_ids, category_ids) /\ PendingFrame
  \/ \E q \in Reqs : PendingCountRead(q) /\ PendingFrame
  \/ \E q \in Reqs, o \in UpstreamOutcomes :
        PendingCountFetch(q, o) /\ PendingFrame
  \/ \E q \in Reqs, a \in PendingCreateArgs :
        CreateMatchCheck(q, a) /\ RefundsFrame
  \/ \E q \in Reqs : CreateMatchInsert(q) /\ RefundsFrame
  \/ \E q \in Reqs, o \in UpstreamOutcomes :
        CreateMatchNotes(q, o) /\ RefundsFrame
  \/ \E q \in Reqs, o \in UpstreamOutcomes :
        CreateMatchTags(q, o) /\ RefundsFrame
  \/ \E q \in Reqs, id \in 1..MaxRefundCalls :
        DeleteMatchFind(q, id) /\ RefundsFrame
  \/ \E q \in Reqs : DeleteMatchRow(q) /\ RefundsFrame
  \/ \E q \in Reqs, o \in UpstreamOutcomes :
        DeleteMatchGetMm(q, o) /\ RefundsFrame
  \/ \E q \in Reqs, o \in UpstreamOutcomes :
        DeleteMatchReadNotes(q, o) /\ RefundsFrame
  \/ \E q \in Reqs, o \in UpstreamOutcomes :
        DeleteMatchWriteNotes(q, o) /\ RefundsFrame
  \/ \E q \in Reqs, o \in UpstreamOutcomes :
        DeleteMatchTags(q, o) /\ RefundsFrame

\* request q returns from get_pending_count in this step
PendingReturns(q) ==
  /\ req'[q] # req[q]
  /\ req'[q].op = "get_pending_count"
  /\ req'[q].pending.returned
  /\ req[q].pc \in {"idle", "done", "pending_fetch"}
  /\ req[q].pc = "pending_fetch" => req[q].op = "get_pending_count"

\* the view filter as the saved-view semantics state it: a tag of the view,
\* and the category among the view's categories when it has any
MatchesAsSpecified(t, f) ==
  /\ Range(f.tag_ids) \cap Range(upstreamTags[t]) # {}
  /\ \/ CatSetOf(f).is_none
     \/ TxnCategory[t] \in CatSetOf(f).ids

\* C11: get_pending_count returns, for every saved view, the number of
\* upstream transactions with amount < 0 that have no RefundsMatch and match
\* the view, and as global count the number of distinct such transactions
\* that match at least one view.
C11_PendingCounts ==
  [][\A q \in Reqs :
       PendingReturns(q) =>
         LET views == req'[q].view_filters
             matched == IF req[q].pc = "pending_fetch"
                        THEN req[q].matched_ids
                        ELSE {m.original_transaction_id : m \in refundsMatches}
             pendingOf(f) ==
               {t \in UpstreamTxns :
                  /\ TxnAmount[t] < 0
                  /\ t \notin matched
                  /\ MatchesAsSpecified(t, f)}
             ret == req'[q].pending
             \* a view without an entry in viewCounts is read as counted 0
             countOf(f) == IF f.id \in DOMAIN ret.viewCounts
                           THEN ret.viewCounts[f.id] ELSE 0
         IN  /\ DOMAIN ret.viewCounts \subseteq {f.id : f \in views}
             /\ \A f \in views : countOf(f) = Cardinality(pendingOf(f))
             /\ ret.count =
                  Cardinality(UNION {pendingOf(f) : f \in views})]_vars

\* C12: once create_match for a transaction has succeeded, no later
\* get_pending_count counts the transaction, in the global count or in a
\* view's count, as long as its match is not deleted.
C12_MatchedNotCounted ==
  [][\A q \in Reqs :
       PendingReturns(q) =>
         \A m \in refundsMatches :
           m.id < req'[q].seen_match_id =>
             \A id \in DOMAIN req'[q].pending.counted :
               m.original_transaction_id
                 \notin req'[q].pending.counted[id]]_vars

\* a get_pending_count that started after a match was stored has fetched,
\* counted something, and left out the matched transaction although it
\* passes a view's filter
C12_Witness ==
  \E q \in Reqs, m \in refundsMatches :
    /\ req[q].op = "get_pending_count" /\ req[q].pending.returned
    /\ req[q].called_upstream /\ req[q].pending.count > 0
    /\ m.id < req[q].seen_match_id
    /\ \E f \in req[q].view_filters :
         TxnMatchesView(TxnDict(m.original_transaction_id),
                        TagSetOf(f), CatSetOf(f))

\* C5: at most one RefundsMatch exists per original_transaction_id, also
\* when create_match requests for one transaction interleave; a create_match
\* that is rejected (by the existence check or by the unique constraint)
\* leaves the table unchanged and has issued no upstream call.
C5_OneMatchPerOriginal ==
  /\ [](\A m1, m2 \in refundsMatches :
          m1.original_transaction_id = m2.original_transaction_id
            => m1 = m2)
  /\ [][\A q \in Reqs :
          (/\ req'[q] # req[q]
           /\ req'[q].op = "create_match"
           /\ req'[q].pc = "done"
           /\ req'[q].result \in {"already_matched", "raised"})
            => /\ refundsMatches' = refundsMatches
               /\ ~req'[q].called_upstream
               /\ req'[q].upstream_writes = 0
               /\ upstreamNotes' = upstreamNotes
               /\ upstreamTags' = upstreamTags]_vars

\* one create_match lost the race at the unique constraint, another was
\* rejected by the existence check, and the transaction has its one match
C5_Witness ==
  \E q1, q2 \in Reqs :
    /\ req[q1].op = "create_match" /\ req[q1].result = "raised"
    /\ req[q2].op = "create_match" /\ req[q2].result = "already_matched"
    /\ req[q1].original_transaction_id = req[q2].original_transaction_id
    /\ Cardinality(GetRefundsMatchByOriginal(
                     refundsMatches, req[q1].original_transaction_id)) = 1

\* C6: in create_match and delete_match the insert or delete of the row is
\* committed before the request issues an upstream call that writes notes
\* or tags, and a failing upstream call leaves the table as it is.
C6_CommitBeforeUpstream ==
  [][\A q \in Reqs :
       /\ req'[q].upstream_writes > req[q].upstream_writes
            => /\ req[q].committed
               /\ req[q].op = "delete_match"
                    => ~\E m \in refundsMatches : m.id = req[q].match_id
       /\ req'[q].upstream_failures > req[q].upstream_failures
            => refundsMatches' = refundsMatches]_vars

\* a create_match whose upstream write failed still has its row, and a
\* delete_match whose upstream write failed has its row deleted
C6_Witness ==
  \E q1, q2 \in Reqs :
    /\ req[q1].op = "create_match" /\ req[q1].committed
    /\ req[q1].upstream_writes > 0 /\ req[q1].upstream_failures > 0
    /\ \E m \in refundsMatches : m.id = req[q1].match_id
    /\ req[q2].op = "delete_match" /\ req[q2].committed
    /\ req[q2].upstream_writes > 0 /\ req[q2].upstream_failures > 0
    /\ ~\E m \in refundsMatches : m.id = req[q2].match_id

\* C7: no failure of an upstream operation of create_match or delete_match
\* (obtaining the client, reading notes, writing notes, setting tags)
\* reaches the caller: once the local change is committed, the request
\* returns a success result.
C7_UpstreamFailureNeverPropagates ==
  \A q \in Reqs :
    (req[q].pc = "done" /\ req[q].committed) => req[q].result = "success"

\* POST /match behind the HTTP decoration layer: the handler returns what
\* create_match returns, a body without a status, which is answered as OK
\* (200) whatever its success field says; an exception that leaves
\* create_match is mapped by its kind, and IntegrityError is none of the
\* domain errors, so it is answered as Internal (500)
CreateMatchResponse(r) ==
  IF r.result = "raised"
    THEN [kind |-> "Internal", success |-> FALSE]
    ELSE [kind |-> "OK", success |-> r.result = "success"]

\* C26: a create_match for a transaction that already has a match, whether
\* the duplicate is found by the existence check or by the unique
\* constraint when two requests race, is reported to the caller as a
\* Conflict (409-style) error.
C26_DuplicateIsConflict ==
  \A q \in Reqs :
    (/\ req[q].op = "create_match"
     /\ req[q].pc = "done"
     /\ req[q].result \in {"already_matched", "raised"})
      => CreateMatchResponse(req[q]).kind = "Conflict"

\* request q has just sent an upstream write from program point pc, and
\* the call succeeded
WroteUpstream(q, pc) ==
  /\ req[q].pc = pc
  /\ req'[q].upstream_writes > req[q].upstream_writes
  /\ req'[q].upstream_failures = req[q].upstream_failures

\* the tag list of the claim: original_tag_ids without view_tag_ids, or
\* without any of its tags when view_tag_ids is not provided, then the
\* replacement tag if one is configured and not in the list
ClaimedTagIds(original_tag_ids, view_tag_ids, replacement_tag_id) ==
  LET removed == IF view_tag_ids.is_none THEN Range(original_tag_ids.ids)
                 ELSE Range(view_tag_ids.ids)
      kept == SelectSeq(original_tag_ids.ids, LAMBDA tid : tid \notin removed)
  IN  IF replacement_tag_id # None /\ replacement_tag_id \notin Range(kept)
      THEN Append(kept, replacement_tag_id) ELSE kept

\* C27: when create_match runs with replace_tag for a concrete (not
\* expected) refund, the tag list it sends upstream is original_tag_ids
\* with exactly view_tag_ids removed (all original tags when view_tag_ids
\* is not provided), followed by replacement_tag_id if one is configured
\* and not already in the list; every other original tag is preserved.
C27_TagsSentAsClaimed ==
  [][\A q \in Reqs :
       (req[q].op = "create_match" /\ WroteUpstream(q, "create_tags")) =>
         LET sh == req[q].args.shape
             sent == upstreamTags'[req[q].original_transaction_id]
         IN  /\ sh.replace_tag /\ ~sh.expected_refund
             /\ sent = ClaimedTagIds(sh.original_tag_ids, sh.view_tag_ids,
                                     replacementTagId)
             /\ \A tid \in Range(sh.original_tag_ids.ids) :
                  (sh.view_tag_ids.is_none
                     \/ tid \in Range(sh.view_tag_ids.ids))
                    \/ tid \in Range(sent)]_vars

\* C28: delete_match writes the upstream tag list only for a match that is
\* not an expected refund and whose transaction_data snapshot captured
\* tags, and then it writes exactly the tag ids of the snapshot; in every
\* other case it leaves the upstream tags unchanged.
C28_RestoresOnlyCapturedTags ==
  [][\A q \in Reqs :
       (req'[q].op = "delete_match" /\ req'[q] # req[q]) =>
         IF req[q].pc = "delete_tags"
            /\ req'[q].upstream_writes > req[q].upstream_writes
         THEN /\ ~req[q].is_expected
              /\ ~req[q].transaction_data.is_none
              /\ req[q].transaction_data.has_tags
              /\ WroteUpstream(q, "delete_tags") =>
                   upstreamTags'[req[q].original_transaction_id]
                     = req[q].transaction_data.tags
         ELSE upstreamTags' = upstreamTags]_vars

\* create_match request c has created the match that delete_match request
\* q is deleting: a concrete refund with replace_tag whose snapshot held
\* the transaction's tags, every upstream call of it having succeeded
RoundTripOf(c, q) ==
  /\ req[c].op = "create_match"
  /\ req[c].pc = "done"
  /\ req[c].result = "success"
  /\ req[c].upstream_failures = 0
  /\ req[c].match_id = req[q].match_id
  /\ req[c].snapshot_is_current
  /\ req[c].args.shape.replace_tag
  /\ ~req[c].args.shape.skipped
  /\ ~req[c].args.shape.expected_refund
  /\ ~req[c].args.shape.refund_amount_is_none

RECURSIVE BlockCount(_, _)
BlockCount(text, i) ==
  IF i > Len(text) THEN 0
  ELSE IF BlockMatchAt(text, i) # 0
       THEN 1 + BlockCount(text, BlockMatchAt(text, i) + 1)
       ELSE BlockCount(text, i + 1)

\* C30: the notes that create_match writes upstream hold exactly one
\* sentinel-delimited block, the newly built one, however many blocks the
\* original notes held: the result of _strip_refund_notes holds no block,
\* so stripping it again changes nothing.
C30_OneBlockWritten ==
  [][\A q \in Reqs :
       (req[q].op = "create_match" /\ WroteUpstream(q, "create_notes")) =>
         LET sh == req[q].args.shape
             base == PrepareOriginalNotes(sh.original_notes)
             written == upstreamNotes'[req[q].original_transaction_id]
             note_line == IF sh.expected_refund
                          THEN BuildExpectedRefundNote(sh.expected_note_given)
                          ELSE BuildRefundNote
         IN  /\ BlockCount(written, 1) = 1
             /\ StandsAt(written, Len(written) - Len(note_line) + 1,
                         note_line)
             /\ ~BlockPatternSearch(base)
             /\ StripRefundNotes(base) = base]_vars

\* C13: create_match with skipped = true issues no upstream call, whatever
\* its other arguments are: the transaction's notes and tags stay as they
\* are.
C13_SkippedNoUpstream ==
  [][\A q \in Reqs :
       (req[q].op = "create_match" /\ req[q].args.shape.skipped
        /\ req'[q].op = "create_match" /\ req'[q].args = req[q].args)
         => /\ ~req'[q].called_upstream
            /\ req'[q].pc # req[q].pc =>
                 /\ upstreamNotes' = upstreamNotes
                 /\ upstreamTags' = upstreamTags]_vars

Init ==
  /\ NotesInit /\ CheckboxInit /\ LockInit /\ FrozenInit /\ ViewInit /\ RefundsInit
  /\ SavedViewsInit /\ LockCallersInit /\ MigInit /\ SessionsInit
  /\ SchedInit

Next ==
  \/ NotesNext \/ CheckboxNext \/ LockNext \/ FrozenNext \/ ViewNext \/ RefundsNext \/ RefundsSerialNext \/ SavedViewsNext \/ ImpactNext \/ SessionsNext
  \/ PendingNext \/ LockCallersNext \/ MigNext
  \/ SchedNext

SpecNotes == Init /\ [][NotesNext]_vars

SpecCheckboxes == Init /\ [][CheckboxNext]_vars

SpecLockout == Init /\ [][LockNext]_vars

SpecLockoutThreads == Init /\ [][LockCallersNext]_vars

SpecMigrations == Init /\ [][MigNext]_vars

SpecScheduler == Init /\ [][SchedNext]_vars

SpecFrozen == Init /\ [][FrozenNext]_vars

SpecViews == Init /\ [][ViewNext]_vars

SpecRefunds == Init /\ [][RefundsNext]_vars
SpecRefundsSerial == Init /\ [][RefundsSerialNext]_vars
SpecSavedViews == Init /\ [][SavedViewsNext]_vars
SpecImpact == Init /\ [][ImpactNext]_vars
SpecNoteSessions == Init /\ [][SessionsNext]_vars

SpecPending == Init /\ [][PendingNext]_vars

Spec == Init /\ [][Next]_vars
====
